---- MODULE Spec2Model ----
(***************************************************************************)
(* A model of JSONLiteDB (src/jsonlitedb.py): the path codec, the Query    *)
(* predicate builder, the query compiler _query2sql and the document       *)
(* access calls that run a compiled filter against the SQLite table.       *)
(*                                                                         *)
(* Text is modelled as a sequence of symbols.  A symbol is one character   *)
(* of the Python string, except that a few character runs that the code    *)
(* only ever handles whole are one symbol each: the token delimiters       *)
(* "!>>" and "<<!", the random body of a token, and the SQL lexemes        *)
(* (white space between lexemes is left out).                              *)
(***************************************************************************)
EXTENDS Integers, Sequences, FiniteSets, TLC

VARIABLES objs, table, nextid, ntok, steps, last, indexes, context_count, conn,
          cursor, file

vars == <<objs, table, nextid, ntok, steps, last, indexes, context_count, conn,
          cursor, file>>

\* The sqlite3 connection outside a transaction
Autocommit == [in_transaction |-> FALSE]

\* The tables of a database file apart from their rows: whether the table
\* of the items is there, the table of the metadata (Absent, or whether it
\* has the columns key and val with key the PRIMARY KEY, and its rows as
\* the pairs of a key and a value), whether the journal is a WAL, and
\* whether another connection holds the file locked
File(it, kv, wal, locked) ==
    [items |-> it, kv |-> kv, wal |-> wal, locked |-> locked]

Absent == [there |-> FALSE, keyed |-> FALSE, rows |-> <<>>]

Kv(keyed, rows) == [there |-> TRUE, keyed |-> keyed, rows |-> rows]

\* The file that the construction of a JSONLiteDB on a new file leaves,
\* created at the time "t0"
Constructed ==
    File(TRUE, Kv(TRUE, <<<<"created", "t0">>, <<"version", "JSONLiteDB-0.1.9">>>>),
         TRUE, FALSE)

\* No cursor of a QueryResult: what a QueryResult holds is the rows that its
\* statement selected and how many of them the cursor has given
NoCursor == [open |-> FALSE, selected |-> <<>>, at |-> 0]

-----------------------------------------------------------------------------
(* Bounds of the model *)

MaxPathLen == 3

MaxObjs == 2

MaxSteps == 3

-----------------------------------------------------------------------------
(* Python values: str, int and tuple keys *)

PyStr(s) == [t |-> "str", s |-> s, i |-> 0, segs |-> <<>>]

PyInt(i) == [t |-> "int", s |-> <<>>, i |-> i, segs |-> <<>>]

PyTuple(segs) == [t |-> "tuple", s |-> <<>>, i |-> 0, segs |-> segs]

PyNone == [t |-> "none", s |-> <<>>, i |-> 0, segs |-> <<>>]

Ok(v) == [err |-> "", val |-> v]

Raise(e) == [err |-> e, val |-> <<>>]

-----------------------------------------------------------------------------
(* String primitives on symbol sequences *)

DQ == "\""

Digit == <<"0", "1", "2", "3", "4", "5", "6", "7", "8", "9">>

IsDigit(c) == \E d \in 1..10 : Digit[d] = c

DigitVal(c) == (CHOOSE d \in 1..10 : Digit[d] = c) - 1

RECURSIVE NatToStr(_)
NatToStr(n) == IF n < 10 THEN <<Digit[n + 1]>>
               ELSE NatToStr(n \div 10) \o <<Digit[(n % 10) + 1]>>

\* f"{i:d}"
IntToStr(i) == IF i < 0 THEN <<"-">> \o NatToStr(0 - i) ELSE NatToStr(i)

RECURSIVE DigitsToNat(_, _)
DigitsToNat(s, acc) == IF s = <<>> THEN acc
                       ELSE DigitsToNat(Tail(s), acc * 10 + DigitVal(Head(s)))

AllDigits(s) == s # <<>> /\ \A k \in 1..Len(s) : IsDigit(s[k])

\* int(text): an optional sign and decimal digits, ValueError otherwise
ParseInt(s) ==
    IF AllDigits(s) THEN Ok(DigitsToNat(s, 0))
    ELSE IF s # <<>> /\ s[1] = "-" /\ AllDigits(Tail(s))
         THEN Ok(0 - DigitsToNat(Tail(s), 0))
    ELSE IF s # <<>> /\ s[1] = "+" /\ AllDigits(Tail(s))
         THEN Ok(DigitsToNat(Tail(s), 0))
    ELSE Raise("ValueError")

StartsWith(s, p) == Len(s) >= Len(p) /\ SubSeq(s, 1, Len(p)) = p

EndsWith(s, p) == Len(s) >= Len(p) /\ SubSeq(s, Len(s) - Len(p) + 1, Len(s)) = p

RemoveSuffix(s, p) == IF p # <<>> /\ EndsWith(s, p)
                      THEN SubSeq(s, 1, Len(s) - Len(p)) ELSE s

RECURSIVE LStrip(_, _)
LStrip(s, c) == IF s # <<>> /\ s[1] = c THEN LStrip(Tail(s), c) ELSE s

RECURSIVE RStrip(_, _)
RStrip(s, c) == IF s # <<>> /\ s[Len(s)] = c
                THEN RStrip(SubSeq(s, 1, Len(s) - 1), c) ELSE s

\* text.strip(c)
Strip(s, c) == RStrip(LStrip(s, c), c)

RECURSIVE SplitAcc(_, _, _)
SplitAcc(s, c, cur) ==
    IF s = <<>> THEN <<cur>>
    ELSE IF s[1] = c THEN <<cur>> \o SplitAcc(Tail(s), c, <<>>)
    ELSE SplitAcc(Tail(s), c, Append(cur, s[1]))

\* text.split(c) for a one-character delimiter
Split(s, c) == SplitAcc(s, c, <<>>)

RECURSIVE Join(_, _)
Join(parts, sep) ==
    IF parts = <<>> THEN <<>>
    ELSE IF Len(parts) = 1 THEN parts[1]
    ELSE parts[1] \o sep \o Join(Tail(parts), sep)

RECURSIVE Concat(_)
Concat(parts) == IF parts = <<>> THEN <<>> ELSE Head(parts) \o Concat(Tail(parts))

RECURSIVE Replace(_, _, _)
Replace(s, old, new) ==
    IF s = <<>> THEN <<>>
    ELSE IF old # <<>> /\ StartsWith(s, old)
         THEN new \o Replace(SubSeq(s, Len(old) + 1, Len(s)), old, new)
    ELSE <<s[1]>> \o Replace(Tail(s), old, new)

\* translate(mystr, reps): reps is the dict as a sequence of <<key, val>>
RECURSIVE translate(_, _)
translate(mystr, reps) ==
    IF reps = <<>> THEN mystr
    ELSE translate(Replace(mystr, reps[1][1], reps[1][2]), Tail(reps))

-----------------------------------------------------------------------------
(* Path codec *)

RECURSIVE GroupFold(_, _, _)
GroupFold(seq, groups, group) ==
    IF seq = <<>> THEN (IF group # <<>> THEN Append(groups, group) ELSE groups)
    ELSE IF Head(seq).t = "int"
         THEN GroupFold(Tail(seq), groups, Append(group, Head(seq)))
    ELSE GroupFold(Tail(seq),
                   IF group # <<>> THEN Append(groups, group) ELSE groups,
                   <<Head(seq)>>)

group_ints_with_preceding_string(seq) == GroupFold(seq, <<>>, <<>>)

\* "".join(f"[{i:d}]" for i in ints)
RECURSIVE Brackets(_)
Brackets(ints) ==
    IF ints = <<>> THEN <<>>
    ELSE <<"[">> \o IntToStr(Head(ints).i) \o <<"]">> \o Brackets(Tail(ints))

\* repr(x) for a string without quotes or backslashes, an int, None, a tuple
RECURSIVE PyRepr(_)
PyRepr(x) ==
    IF x.t = "str" THEN <<"'">> \o x.s \o <<"'">>
    ELSE IF x.t = "int" THEN IntToStr(x.i)
    ELSE IF x.t = "none" THEN <<"N", "o", "n", "e">>
    ELSE <<"(">>
         \o Join([k \in 1..Len(x.segs) |-> PyRepr(x.segs[k])], <<",", " ">>)
         \o (IF Len(x.segs) = 1 THEN <<",">> ELSE <<>>) \o <<")">>

\* f"{x}": str(x), which is x itself for a string and repr(x) otherwise
PyFormat(x) == IF x.t = "str" THEN x.s ELSE PyRepr(x)

\* f'"{skey}"' + "".join(f"[{i:d}]" for i in ints)
KeyGroupText(keygroup) ==
    <<DQ>> \o PyFormat(Head(keygroup)) \o <<DQ>> \o Brackets(Tail(keygroup))

\* The tuple branch of _query_tuple2jsonpath
TuplePath(segs) ==
    LET key     == group_ints_with_preceding_string(segs)
        leading == key # <<>> /\ key[1][1].t = "int"
        first   == IF leading THEN <<"$">> \o Brackets(key[1]) ELSE <<"$">>
        rest    == IF leading THEN Tail(key) ELSE key
        newkey  == <<first>> \o [k \in 1..Len(rest) |-> KeyGroupText(rest[k])]
    IN  Join(newkey, <<".">>)

\* _query_tuple2jsonpath for one key: the canonical path, or ValueError
JsonPathOfKey(key) ==
    IF key.t = "str"
    THEN (IF StartsWith(key.s, <<"$">>) THEN Ok(key.s)
          ELSE Ok(<<"$", ".", DQ>> \o key.s \o <<DQ>>))
    ELSE IF key.t = "int" THEN Ok(<<"$", "[">> \o IntToStr(key.i) \o <<"]">>)
    ELSE IF key.t # "tuple" THEN Raise("ValueError")
    ELSE Ok(TuplePath(key.segs))

\* re.findall(r'(".*?")', s)
RECURSIVE FindQuoted(_)
FindQuoted(s) ==
    IF s = <<>> THEN <<>>
    ELSE IF s[1] = DQ /\ \E j \in 2..Len(s) : s[j] = DQ
         THEN LET j == CHOOSE j \in 2..Len(s) :
                           s[j] = DQ /\ \A k \in 2..(j - 1) : s[k] # DQ
              IN  <<SubSeq(s, 1, j)>> \o FindQuoted(SubSeq(s, j + 1, Len(s)))
    ELSE FindQuoted(Tail(s))

\* randstr(): a random string that no other draw and no text of the caller
\* repeats, here the draw numbered n. Tokens take the numbers from 1 up,
\* the draws local to split_no_double_quotes the numbers below 0.
randstr(n) == "~" \o ToString(n)

\* {q: randstr() for q in quoted}: one entry per distinct q, first-seen order
RECURSIVE QuoteReps(_, _, _)
QuoteReps(quoted, reps, n) ==
    IF quoted = <<>> THEN reps
    ELSE IF \E k \in 1..Len(reps) : reps[k][1] = Head(quoted)
         THEN QuoteReps(Tail(quoted), reps, n)
    ELSE QuoteReps(Tail(quoted), Append(reps, <<Head(quoted), <<randstr(n)>>>>), n - 1)

split_no_double_quotes(s, delimiter) ==
    LET reps  == QuoteReps(FindQuoted(s), <<>>, -1)
        ireps == [k \in 1..Len(reps) |-> <<reps[k][2], reps[k][1]>>]
        parts == Split(translate(s, reps), delimiter)
    IN  [k \in 1..Len(parts) |-> translate(parts[k], ireps)]

\* The body of the loop over one dotted item in split_query
RECURSIVE ParseIxs(_)
ParseIxs(ixs) ==
    IF ixs = <<>> THEN Ok(<<>>)
    ELSE LET ix   == ParseInt(RemoveSuffix(Head(ixs), <<"]">>))
             rest == ParseIxs(Tail(ixs))
         IN  IF ix.err # "" THEN ix
             ELSE IF rest.err # "" THEN rest
             ELSE Ok(<<PyInt(ix.val)>> \o rest.val)

RECURSIVE SplitItems(_)
SplitItems(items) ==
    IF items = <<>> THEN Ok(<<>>)
    ELSE LET pieces == Split(Head(items), "[")
             name   == PyStr(Strip(Head(pieces), DQ))
             ixs    == ParseIxs(Tail(pieces))
             rest   == SplitItems(Tail(items))
         IN  IF ixs.err # "" THEN ixs
             ELSE IF rest.err # "" THEN rest
             ELSE Ok(<<name>> \o ixs.val \o rest.val)

\* split_query applied to a canonical path string
SplitCanonical(canon) ==
    LET path  == split_no_double_quotes(canon, ".")
        first == IF StartsWith(path[1], <<"$", "[">>)
                 THEN ParseInt(SubSeq(path[1], 3, Len(path[1]) - 1))
                 ELSE Ok(0)
        head  == IF StartsWith(path[1], <<"$", "[">>) THEN <<PyInt(first.val)>> ELSE <<>>
        rest  == SplitItems(Tail(path))
    IN  IF first.err # "" THEN first
        ELSE IF rest.err # "" THEN rest
        ELSE Ok(head \o rest.val)

-----------------------------------------------------------------------------
(* class Query: objects live in the heap objs, named by their index.       *)
(* query = <<>> stands for _query = None (no assignment in the source      *)
(* gives _query an empty string); key is a tuple value for the list _key   *)
(* and PyTrue for the True that _from_equality stores.                     *)

PyTrue == [t |-> "bool", s |-> <<>>, i |-> 1, segs |-> <<>>]

None == <<>>

EmptyDict == <<>>

\* Query.__init__
QueryInit == [key |-> PyTuple(<<>>), qdict |-> EmptyDict, query |-> None,
              asc_or_desc |-> ""]

\* dict | dict
DictOr(a, b) == [k \in (DOMAIN a) \cup (DOMAIN b) |->
                    IF k \in DOMAIN b THEN b[k] ELSE a[k]]

\* d[k] = v
DictSet(d, k, v) == [j \in (DOMAIN d) \cup {k} |-> IF j = k THEN v ELSE d[j]]

\* sqlite_quote(text) for a str: the SQL literal SQLite prints for it
sqlite_quote(text) == <<"'">> \o Replace(text, <<"'">>, <<"'", "'">>) \o <<"'">>

randkey(n) == <<"!>>", randstr(n), "<<!">>

\* f"JSON_EXTRACT(data, {sqlite_quote(k)})"
ExtractText(k) == <<"JSON_EXTRACT", "(", "data", ",">> \o sqlite_quote(k) \o <<")">>

\* Query._from_equality(k, v), drawing token number n
from_equality(k, v, n) ==
    [key |-> PyTrue,
     qdict |-> DictSet(EmptyDict, randkey(n), v),
     query |-> <<"(">> \o ExtractText(k) \o <<"=">> \o randkey(n) \o <<")">>,
     asc_or_desc |-> ""]

\* Query.__getattr__ / the scalar branch of Query.__getitem__
KeyAppend(self, item) ==
    IF self.key.t # "tuple" THEN Raise("AttributeError")
    ELSE Ok([self EXCEPT !.key = PyTuple(Append(self.key.segs, item))])

\* Query.__getitem__
getitem(self, item) ==
    IF self.key.t # "tuple" THEN Raise("AttributeError")
    ELSE IF item.t = "tuple"
         THEN Ok([self EXCEPT !.key = PyTuple(self.key.segs \o item.segs)])
    ELSE KeyAppend(self, item)

\* A _compare that binds every value, None too
compare_always_bind(self, val, sym, n) ==
    IF self.key.t # "tuple" THEN Raise("TypeError")
    ELSE Ok([obj |-> [self EXCEPT
                 !.qdict = DictSet(self.qdict, randkey(n), val),
                 !.query = <<"(">> \o ExtractText(TuplePath(self.key.segs))
                           \o <<sym>> \o randkey(n) \o <<")">>],
             drew |-> TRUE])

\* A _compare that takes None for NULL under every operator
compare_null_any(self, val, sym, n) ==
    IF self.key.t # "tuple" THEN Raise("TypeError")
    ELSE IF val.t = "none"
    THEN Ok([obj |-> [self EXCEPT !.query =
                 <<"(">> \o ExtractText(TuplePath(self.key.segs)) \o <<"IS">>
                 \o (IF sym = "=" THEN <<>> ELSE <<"NOT">>) \o <<"NULL", ")">>],
             drew |-> FALSE])
    ELSE Ok([obj |-> [self EXCEPT
                 !.qdict = DictSet(self.qdict, randkey(n), val),
                 !.query = <<"(">> \o ExtractText(TuplePath(self.key.segs))
                           \o <<sym>> \o randkey(n) \o <<")">>],
             drew |-> TRUE])

\* Query._compare past its first check, drawing token number n when it
\* needs one. val.obj is the object after the call, val.drew whether a token
\* was drawn.
compare_unset(self, val, sym, n) ==
    IF self.key.t # "tuple" THEN Raise("TypeError")
    ELSE LET k == TuplePath(self.key.segs)
         IN  IF val.t = "none" /\ sym \in {"=", "!="}
             THEN Ok([obj |-> [self EXCEPT !.query =
                          <<"(">> \o ExtractText(k) \o <<"IS">>
                          \o (IF sym = "!=" THEN <<"NOT">> ELSE <<>>)
                          \o <<"NULL", ")">>],
                      drew |-> FALSE])
             ELSE Ok([obj |-> [self EXCEPT
                          !.qdict = DictSet(self.qdict, randkey(n), val),
                          !.query = <<"(">> \o ExtractText(k) \o <<sym>>
                                    \o randkey(n) \o <<")">>],
                      drew |-> TRUE])

\* A _compare without the check for an expression that is already set
compare_no_check(self, val, sym, n) == compare_unset(self, val, sym, n)

\* Query._compare(val, sym=sym)
compare(self, val, sym, n) ==
    IF self.query # None THEN Raise("DissallowedError")
    ELSE compare_unset(self, val, sym, n)

\* A _logic that tests only its left operand
logic_left_only(self, other, comb) ==
    IF self.query = None THEN Raise("MissingValueError")
    ELSE Ok([self EXCEPT
                !.qdict = DictOr(self.qdict, other.qdict),
                !.query = <<"(">> \o self.query \o <<comb>> \o other.query \o <<")">>])

\* Query._logic(other, comb=comb)
logic(self, other, comb) ==
    IF self.query = None \/ other.query = None THEN Raise("MissingValueError")
    ELSE Ok([self EXCEPT
                !.qdict = DictOr(self.qdict, other.qdict),
                !.query = <<"(">> \o self.query \o <<comb>> \o other.query \o <<")">>])

\* Query.__invert__
invert(self) ==
    Ok([self EXCEPT !.query =
            <<"(", "NOT">> \o (IF self.query = None THEN <<"None">> ELSE self.query)
            \o <<")">>])

-----------------------------------------------------------------------------
(* Path helpers that take any argument: a key, a dict or a Query object *)

PyQuery(o) == [t |-> "query", s |-> <<>>, i |-> o, segs |-> <<>>]

PyDict == [t |-> "dict", s |-> <<>>, i |-> 0, segs |-> <<>>]

\* not x
Falsy(x) == \/ x.t = "none"
            \/ x.t = "str" /\ x.s = <<>>
            \/ x.t = "tuple" /\ x.segs = <<>>
            \/ x.t = "int" /\ x.i = 0
            \/ x.t = "list" /\ x.segs = <<>>

\* build_index_paths(arg)[0] with the heap h
build_index_paths(h, arg) ==
    IF arg.t = "dict" THEN Raise("AssignedQueryError")
    ELSE IF arg.t = "query"
         THEN (IF h[arg.i].query # None THEN Raise("AssignedQueryError")
               ELSE JsonPathOfKey(h[arg.i].key))
    ELSE JsonPathOfKey(arg)

\* split_query(path) with the heap h
split_query(h, path) ==
    IF Falsy(path) THEN Ok(<<>>)
    ELSE LET canon == build_index_paths(h, path)
         IN  IF canon.err # "" THEN canon ELSE SplitCanonical(canon.val)

-----------------------------------------------------------------------------
(* The path codec on its own: a tuple path of up to MaxPathLen segments is *)
(* normalised by build_index_paths and the result split by split_query.   *)

CodecSegs == {PyStr(<<"a">>), PyStr(<<"a", ".", "b">>), PyStr(<<>>),
              PyInt(0), PyInt(-1), PyInt(12)}

CodecPaths == UNION {[1..n -> CodecSegs] : n \in 1..MaxPathLen}

InitCodec ==
    /\ objs = <<>>
    /\ table = <<>>
    /\ nextid = 1
    /\ ntok = 0
    /\ steps = 0
    /\ indexes = {}
    /\ context_count = 0
    /\ conn = Autocommit
    /\ cursor = NoCursor
    /\ file = Constructed
    /\ \E p \in CodecPaths : last = [op |-> "call", arg |-> p]

SplitBuilt ==
    /\ last.op = "call"
    /\ LET canon == build_index_paths(objs, PyTuple(last.arg))
       IN  last' = [op |-> "split_query", arg |-> last.arg, canon |-> canon.val,
                    out |-> split_query(objs, PyStr(canon.val))]
    /\ UNCHANGED <<file, cursor, indexes, context_count, conn, objs, table, nextid, ntok, steps>>

NextCodec == SplitBuilt

SpecCodec == InitCodec /\ [][NextCodec]_vars

\* C1: split_query of the canonical path that build_index_paths gives for a
\* non-empty tuple path returns the tuple's segments in order.
C1_RoundTrip == last.op = "split_query" => last.out = Ok(last.arg)

-----------------------------------------------------------------------------
(* The predicate builder: the operations a caller applies to Query objects. *)
(* steps counts the calls that changed the heap, up to MaxSteps; last       *)
(* records the latest call, the object it was applied to as it was before   *)
(* the call (before, other_before) and the exception it raised (err).       *)

Attrs == {<<"k">>}

Items == {PyInt(0), PyTuple(<<PyStr(<<"b">>), PyInt(1)>>)}

Vals == {PyNone, PyInt(1)}

CompareSyms == {"<", "<=", "=", "!=", ">", ">="}

PatternSyms == {"LIKE", "GLOB", "REGEXP"}

Combs == {"AND", "OR"}

EqPaths == {<<"$", ".", DQ, "k", DQ>>}

Objs == 1..Len(objs)

\* The heap and counters after a call on object o that returned r
Stored(o, r) ==
    /\ (r.err = "" => steps < MaxSteps)
    /\ objs' = IF r.err = "" THEN [objs EXCEPT ![o] = r.val] ELSE objs
    /\ steps' = IF r.err = "" THEN steps + 1 ELSE steps

\* Query()
NewQuery ==
    /\ Len(objs) < MaxObjs
    /\ steps < MaxSteps
    /\ objs' = Append(objs, QueryInit)
    /\ steps' = steps + 1
    /\ last' = [op |-> "Query", self |-> Len(objs) + 1, err |-> ""]
    /\ UNCHANGED <<file, cursor, indexes, context_count, conn, table, nextid, ntok>>

\* q.attr
GetAttr(o, attr) ==
    /\ Stored(o, KeyAppend(objs[o], PyStr(attr)))
    /\ last' = [op |-> "getattr", self |-> o, before |-> objs[o],
                err |-> KeyAppend(objs[o], PyStr(attr)).err]
    /\ UNCHANGED <<file, cursor, indexes, context_count, conn, table, nextid, ntok>>

\* q[item]
GetItem(o, item) ==
    /\ Stored(o, getitem(objs[o], item))
    /\ last' = [op |-> "getitem", self |-> o, before |-> objs[o],
                err |-> getitem(objs[o], item).err]
    /\ UNCHANGED <<file, cursor, indexes, context_count, conn, table, nextid, ntok>>

\* q <sym> val
Compare(o, val, sym) ==
    LET r == compare(objs[o], val, sym, ntok + 1)
    IN  /\ Stored(o, IF r.err = "" THEN Ok(r.val.obj) ELSE r)
        /\ ntok' = IF r.err = "" /\ r.val.drew THEN ntok + 1 ELSE ntok
        /\ last' = [op |-> "compare", self |-> o, before |-> objs[o],
                    val |-> val, sym |-> sym, tokens |-> ntok, err |-> r.err]
        /\ UNCHANGED <<file, cursor, indexes, context_count, conn, table, nextid>>

\* lo <= q <= hi: Python evaluates (lo <= q) and (q <= hi), the first by the
\* reflected q >= lo; a Query object is truthy, so the second always runs.
ChainedCompare(o, lo, hi) ==
    LET r1 == compare(objs[o], lo, ">=", ntok + 1)
        n1 == IF r1.err = "" /\ r1.val.drew THEN ntok + 1 ELSE ntok
        r2 == IF r1.err = "" THEN compare(r1.val.obj, hi, "<=", n1 + 1) ELSE r1
        n2 == IF r2.err = "" /\ r2.val.drew THEN n1 + 1 ELSE n1
        after == IF r2.err = "" THEN r2.val.obj
                 ELSE IF r1.err = "" THEN r1.val.obj ELSE objs[o]
    IN  /\ (after # objs[o] => steps < MaxSteps)
        /\ objs' = [objs EXCEPT ![o] = after]
        /\ steps' = IF after # objs[o] THEN steps + 1 ELSE steps
        /\ ntok' = n2
        /\ last' = [op |-> "chained", self |-> o, before |-> objs[o],
                    err |-> r2.err]
        /\ UNCHANGED <<file, cursor, indexes, context_count, conn, table, nextid>>

\* q & p, q | p
Logic(o, p, comb) ==
    /\ Stored(o, logic(objs[o], objs[p], comb))
    /\ last' = [op |-> "logic", self |-> o, other |-> p, before |-> objs[o],
                other_before |-> objs[p], err |-> logic(objs[o], objs[p], comb).err]
    /\ UNCHANGED <<file, cursor, indexes, context_count, conn, table, nextid, ntok>>

\* ~q
Invert(o) ==
    /\ Stored(o, invert(objs[o]))
    /\ last' = [op |-> "invert", self |-> o, before |-> objs[o],
                err |-> invert(objs[o]).err]
    /\ UNCHANGED <<file, cursor, indexes, context_count, conn, table, nextid, ntok>>

\* Query._from_equality(k, v)
FromEquality(k, v) ==
    /\ Len(objs) < MaxObjs
    /\ steps < MaxSteps
    /\ objs' = Append(objs, from_equality(k, v, ntok + 1))
    /\ ntok' = ntok + 1
    /\ steps' = steps + 1
    /\ last' = [op |-> "from_equality", self |-> Len(objs) + 1, err |-> ""]
    /\ UNCHANGED <<file, cursor, indexes, context_count, conn, table, nextid>>

InitQuery ==
    /\ objs = <<>>
    /\ table = <<>>
    /\ nextid = 1
    /\ ntok = 0
    /\ steps = 0
    /\ indexes = {}
    /\ context_count = 0
    /\ conn = Autocommit
    /\ cursor = NoCursor
    /\ file = Constructed
    /\ last = [op |-> "init", err |-> ""]

NextQuery ==
    \/ NewQuery
    \/ \E o \in Objs, attr \in Attrs : GetAttr(o, attr)
    \/ \E o \in Objs, item \in Items : GetItem(o, item)
    \/ \E o \in Objs, val \in Vals, sym \in CompareSyms \cup PatternSyms :
          Compare(o, val, sym)
    \/ \E o \in Objs, lo \in Vals, hi \in Vals : ChainedCompare(o, lo, hi)
    \/ \E o \in Objs, p \in Objs, comb \in Combs : Logic(o, p, comb)
    \/ \E o \in Objs : Invert(o)
    \/ \E k \in EqPaths, v \in Vals : FromEquality(k, v)

SpecQuery == InitQuery /\ [][NextQuery]_vars

\* C8: a comparison or pattern operator applied to an expression that is
\* already set raises DissallowedError and leaves the expression as it was;
\* a chained comparison lo <= q <= hi is always rejected.
C8_SetCompareRejected ==
    /\ (last.op = "compare" /\ last.before.query # None) =>
          (last.err = "DissallowedError" /\ objs[last.self] = last.before)
    /\ last.op = "chained" =>
          /\ last.err = "DissallowedError"
          /\ (last.before.query # None => objs[last.self] = last.before)

C8_Witness ==
    /\ last.op = "compare"
    /\ last.before.query # None
    /\ last.err = "DissallowedError"
    /\ objs[last.self].qdict # EmptyDict

\* C9: AND/OR with an unset operand raises MissingValueError and changes
\* neither operand.
C9_LogicUnsetRejected ==
    (last.op = "logic"
        /\ (last.before.query = None \/ last.other_before.query = None)) =>
       /\ last.err = "MissingValueError"
       /\ objs[last.self] = last.before
       /\ objs[last.other] = last.other_before

C9_Witness ==
    /\ last.op = "logic"
    /\ last.err = "MissingValueError"
    /\ last.before.query # None
    /\ last.other_before.query = None
    /\ last.other_before.key.segs # <<>>

\* C10: ~ on an unset expression raises MissingValueError and leaves it
\* unset; ~ on a set expression wraps its text as ( NOT text ) and keeps its
\* bindings.
C10_InvertRequiresSet ==
    last.op = "invert" =>
       IF last.before.query = None
       THEN last.err = "MissingValueError" /\ objs[last.self].query = None
       ELSE /\ last.err = ""
            /\ objs[last.self].query = <<"(", "NOT">> \o last.before.query \o <<")">>
            /\ objs[last.self].qdict = last.before.qdict

-----------------------------------------------------------------------------
(* The storage engine as the code uses it: JSON documents, the JSON path   *)
(* lookup behind JSON_EXTRACT and JSON_EACH, SQL's three-valued logic and  *)
(* the evaluation of a WHERE text with its bound values on one row.        *)

JNull == [t |-> "null", n |-> 0, m |-> <<>>, a |-> <<>>]

JInt(n) == [t |-> "int", n |-> n, m |-> <<>>, a |-> <<>>]

JObj(m) == [t |-> "obj", n |-> 0, m |-> m, a |-> <<>>]

JArr(a) == [t |-> "arr", n |-> 0, m |-> <<>>, a |-> a]

SqlNull == [t |-> "null", n |-> 0, j |-> JNull]

SqlInt(n) == [t |-> "int", n |-> n, j |-> JNull]

SqlText(j) == [t |-> "text", n |-> 0, j |-> j]

Found(v) == [st |-> "found", v |-> v]

Missing == [st |-> "missing", v |-> JNull]

PathError == [st |-> "error", v |-> JNull]

\* The first k in from..Len(z) where z[k] is in stops, Len(z) + 1 if none
RECURSIVE FirstAt(_, _, _)
FirstAt(z, from, stops) ==
    IF from > Len(z) THEN Len(z) + 1
    ELSE IF z[from] \in stops THEN from
    ELSE FirstAt(z, from + 1, stops)

\* The first k in from..Len(z) where z[k] is no digit, Len(z) + 1 if none
RECURSIVE DigitsEnd(_, _)
DigitsEnd(z, from) ==
    IF from > Len(z) \/ ~IsDigit(z[from]) THEN from ELSE DigitsEnd(z, from + 1)

RECURSIVE Lookup(_, _)

\* The member key of an object node, then the rest of the path
LookupKey(node, key, rest) ==
    IF key \in DOMAIN node.m THEN Lookup(node.m[key], rest) ELSE Missing

\* ."key" with the closing quote at z[close]
LookupQuoted(node, z, close) ==
    IF close > Len(z) THEN PathError
    ELSE LookupKey(node, SubSeq(z, 3, close - 1), SubSeq(z, close + 1, Len(z)))

\* .key with the key ending before z[stop]
LookupPlain(node, z, stop) ==
    IF stop = 2 THEN PathError
    ELSE LookupKey(node, SubSeq(z, 2, stop - 1), SubSeq(z, stop, Len(z)))

\* [digits] with the digits ending before z[stop]
LookupIndex(node, z, stop) ==
    IF stop = 2 \/ stop > Len(z) \/ z[stop] # "]" THEN PathError
    ELSE IF node.t # "arr" THEN Missing
    ELSE IF DigitsToNat(SubSeq(z, 2, stop - 1), 0) + 1 <= Len(node.a)
         THEN Lookup(node.a[DigitsToNat(SubSeq(z, 2, stop - 1), 0) + 1],
                     SubSeq(z, stop + 1, Len(z)))
    ELSE Missing

\* The node that the rest z of a JSON path names below node
Lookup(node, z) ==
    IF z = <<>> THEN Found(node)
    ELSE IF z[1] = "."
    THEN IF node.t # "obj" THEN Missing
         ELSE IF Len(z) >= 2 /\ z[2] = DQ
              THEN LookupQuoted(node, z, FirstAt(z, 3, {DQ}))
         ELSE LookupPlain(node, z, FirstAt(z, 2, {".", "["}))
    ELSE IF z[1] = "[" THEN LookupIndex(node, z, DigitsEnd(z, 2))
    ELSE PathError

\* The node at a JSON path of a document
PathLookup(doc, path) ==
    IF path = <<>> \/ path[1] # "$" THEN PathError ELSE Lookup(doc, Tail(path))

\* The SQL value of a node looked up: NULL for a missing path and for JSON
\* null, TEXT for an object or an array
ExtractValue(r) ==
    IF r.st = "error" THEN [err |-> "OperationalError", val |-> SqlNull]
    ELSE IF r.st = "missing" \/ r.v.t = "null" THEN Ok(SqlNull)
    ELSE IF r.v.t = "int" THEN Ok(SqlInt(r.v.n))
    ELSE Ok(SqlText(r.v))

\* JSON_EXTRACT(data, path)
JsonExtract(doc, path) == ExtractValue(PathLookup(doc, path))

\* A bound Python value as SQL sees it
Bind(v) == IF v.t = "none" THEN SqlNull ELSE SqlInt(v.i)

\* Truth values: "T", "F", "N" (NULL), and "E" for an error raised in the row
Not3(x) == CASE x = "T" -> "F" [] x = "F" -> "T" [] x = "N" -> "N" [] x = "E" -> "E"

And3(x, y) == IF x = "E" \/ y = "E" THEN "E"
              ELSE IF x = "F" \/ y = "F" THEN "F"
              ELSE IF x = "N" \/ y = "N" THEN "N" ELSE "T"

Or3(x, y) == IF x = "E" \/ y = "E" THEN "E"
             ELSE IF x = "T" \/ y = "T" THEN "T"
             ELSE IF x = "N" \/ y = "N" THEN "N" ELSE "F"

Bool3(b) == IF b THEN "T" ELSE "F"

\* x < y in SQLite's order of storage classes: every INTEGER before every TEXT
SqlLess(x, y) == \/ x.t = "int" /\ y.t = "int" /\ x.n < y.n
                 \/ x.t = "int" /\ y.t = "text"

SqlEq(x, y) == x.t = y.t /\ x.n = y.n /\ x.j = y.j

\* x <sym> y for the six comparison operators
SqlCompare(x, sym, y) ==
    IF x.t = "null" \/ y.t = "null" THEN "N"
    ELSE CASE sym = "="  -> Bool3(SqlEq(x, y))
           [] sym = "!=" -> Bool3(~SqlEq(x, y))
           [] sym = "<"  -> Bool3(SqlLess(x, y))
           [] sym = "<=" -> Bool3(SqlLess(x, y) \/ SqlEq(x, y))
           [] sym = ">"  -> Bool3(SqlLess(y, x))
           [] sym = ">=" -> Bool3(SqlLess(y, x) \/ SqlEq(x, y))

\* The SQL string literal that opens before t[p]: its text, and the place
\* after its closing quote
RECURSIVE ReadLiteral(_, _, _)
ReadLiteral(t, p, acc) ==
    IF p > Len(t) THEN [s |-> acc, p |-> p]
    ELSE IF t[p] = "'"
         THEN IF p < Len(t) /\ t[p + 1] = "'"
              THEN ReadLiteral(t, p + 2, Append(acc, "'"))
              ELSE [s |-> acc, p |-> p + 1]
    ELSE ReadLiteral(t, p + 1, Append(acc, t[p]))

\* The value of a condition: v its truth value, p the place after it, b the
\* next value to bind
Cond(v, p, b) == [v |-> v, p |-> p, b |-> b]

\* ( JSON_EXTRACT(data, path) ... ) with x the value extracted and t[q] the
\* lexeme after the call
EvalExtract(t, q, b, binds, x) ==
    IF x.err # "" THEN Cond("E", q, b)
    ELSE IF t[q] = "IS"
         THEN IF t[q + 1] = "NOT" THEN Cond(Bool3(x.val.t # "null"), q + 4, b)
              ELSE Cond(Bool3(x.val.t = "null"), q + 3, b)
    ELSE Cond(SqlCompare(x.val, t[q], Bind(binds[b])), q + 3, b + 1)

\* ( NOT r )
EvalNot(r) == Cond(Not3(r.v), r.p + 1, r.b)

\* ( l AND r ), ( l OR r )
EvalLogic(comb, l, r) ==
    Cond(IF comb = "AND" THEN And3(l.v, r.v) ELSE Or3(l.v, r.v), r.p + 1, r.b)

RECURSIVE EvalCond(_, _, _, _, _)

\* ( l <comb> ... ) with l the value of the left condition
EvalRight(t, binds, doc, l) ==
    EvalLogic(t[l.p], l, EvalCond(t, l.p + 1, l.b, binds, doc))

\* The value of the condition that starts at t[p] on the row's document
EvalCond(t, p, b, binds, doc) ==
    IF t[p] # "(" THEN Cond(Bool3(t[p] = t[p + 2]), p + 3, b)
    ELSE IF t[p + 1] = "NOT"
    THEN IF t[p + 2] = "None" THEN Cond("E", p + 4, b)
         ELSE EvalNot(EvalCond(t, p + 2, b, binds, doc))
    ELSE IF t[p + 1] = "JSON_EXTRACT"
    THEN EvalExtract(t, ReadLiteral(t, p + 6, <<>>).p + 1, b, binds,
                     JsonExtract(doc, ReadLiteral(t, p + 6, <<>>).s))
    ELSE EvalRight(t, binds, doc, EvalCond(t, p + 1, b, binds, doc))

\* WHERE qstr with qvals bound, on one row
Where(qstr, qvals, doc) == EvalCond(qstr, 1, 1, qvals, doc).v

\* The places of the bind placeholders of a statement: each ? that is not
\* inside a string literal
Placeholders(qstr) ==
    {k \in 1..Len(qstr) :
        /\ qstr[k] = "?"
        /\ Cardinality({j \in 1..k : qstr[j] = "'"}) % 2 = 0}

\* The error SQLite raises for the statement, "" if none: a name that is no
\* column when the statement is prepared, a wrong number of bound values, or
\* an error in some row; truths[k] is the WHERE's value on row k
StatementError(qstr, qvals, truths) ==
    IF \E k \in 1..Len(qstr) : qstr[k] = "None" THEN "OperationalError"
    ELSE IF Cardinality(Placeholders(qstr)) # Len(qvals)
         THEN "ProgrammingError"
    ELSE IF \E k \in 1..Len(truths) : truths[k] = "E" THEN "OperationalError"
    ELSE ""

\* The rows whose truth value is "T", in the order of the table
RECURSIVE Kept(_, _)
Kept(rows, truths) ==
    IF rows = <<>> THEN <<>>
    ELSE (IF Head(truths) = "T" THEN <<Head(rows)>> ELSE <<>>)
         \o Kept(Tail(rows), Tail(truths))

\* What the cursor of a statement gives: its error, or the rows kept
Fetch(err, rows, truths) == IF err # "" THEN Raise(err) ELSE Ok(Kept(rows, truths))

\* The rows of a statement with the WHERE's value on each row known
SelectBy(qstr, qvals, rows, truths) ==
    Fetch(StatementError(qstr, qvals, truths), rows, truths)

\* SELECT rowid, data FROM table WHERE qstr, in rowid order
Select(qstr, qvals, rows) ==
    SelectBy(qstr, qvals, rows,
             [k \in 1..Len(rows) |-> Where(qstr, qvals, rows[k].data)])

-----------------------------------------------------------------------------
(* From the arguments of a call to the WHERE text and its bound values.    *)
(* A Python dict that keeps insertion order is a sequence of <<key, value>>.*)

PyDictOf(items) == [t |-> "dict", s |-> <<>>, i |-> 0, segs |-> items]

\* d[k] = v
RECURSIVE ItemSet(_, _, _)
ItemSet(d, k, v) ==
    IF d = <<>> THEN <<<<k, v>>>>
    ELSE IF Head(d)[1] = k THEN <<<<k, v>>>> \o Tail(d)
    ELSE <<Head(d)>> \o ItemSet(Tail(d), k, v)

\* a | b
RECURSIVE ItemsOr(_, _)
ItemsOr(a, b) ==
    IF b = <<>> THEN a ELSE ItemsOr(ItemSet(a, Head(b)[1], Head(b)[2]), Tail(b))

\* The first loop of _query_tuple2jsonpath: kw |= arg, a bare key standing
\* for {key: None}
RECURSIVE ArgsDict(_, _)
ArgsDict(args, kw) ==
    IF args = <<>> THEN kw
    ELSE ArgsDict(Tail(args),
                  ItemsOr(kw, IF Head(args).t = "dict" THEN Head(args).segs
                              ELSE <<<<Head(args), PyNone>>>>))

RECURSIVE PathsDict(_, _)

\* updated[path] = val for the first item, then the items that follow
PathsDictSet(items, updated, path) ==
    IF path.err # "" THEN path
    ELSE PathsDict(Tail(items), ItemSet(updated, path.val, Head(items)[2]))

\* The second loop of _query_tuple2jsonpath
PathsDict(items, updated) ==
    IF items = <<>> THEN Ok(updated)
    ELSE PathsDictSet(items, updated, JsonPathOfKey(Head(items)[1]))

\* _query_tuple2jsonpath(*args, **kwargs)
query_tuple2jsonpath(args, kwargs) ==
    PathsDict(ItemsOr(ArgsDict(args, <<>>), kwargs), <<>>)

\* The local qobj of _query2sql: some is FALSE while it is None; it is then
\* the object obj made inside the call (ref = 0) or the caller's object
\* h[ref]. h is the heap and n the number of tokens drawn so far.
NoQobj(h, n) == [err |-> "", some |-> FALSE, ref |-> 0, obj |-> QueryInit,
                 h |-> h, n |-> n]

Qobj(c) == IF c.ref = 0 THEN c.obj ELSE c.h[c.ref]

SetQobj(c, q) == IF c.ref = 0 THEN [c EXCEPT !.obj = q]
                 ELSE [c EXCEPT !.h = [c.h EXCEPT ![c.ref] = q]]

\* qobj = joined, the outcome of a _logic call on qobj
Joined(c, joined) ==
    IF joined.err # "" THEN [c EXCEPT !.err = joined.err]
    ELSE SetQobj(c, joined.val)

\* qobj &= eq, or qobj = eq the first time, for eq the object of
\* Query._from_equality(key, val), which drew a token
AndEq(c, eq) ==
    IF ~c.some THEN [c EXCEPT !.some = TRUE, !.obj = eq, !.n = c.n + 1]
    ELSE [Joined(c, logic(Qobj(c), eq, "AND")) EXCEPT !.n = c.n + 1]

AndEquality(c, item) == AndEq(c, from_equality(item[1], item[2], c.n + 1))

RECURSIVE AndEqualities(_, _)
AndEqualities(c, items) ==
    IF items = <<>> \/ c.err # "" THEN c
    ELSE AndEqualities(AndEquality(c, Head(items)), Tail(items))

\* A loop that joins the Query arguments with OR
OrArg(c, arg) ==
    IF ~c.some THEN [c EXCEPT !.some = TRUE, !.ref = arg.i]
    ELSE Joined(c, logic(Qobj(c), c.h[arg.i], "OR"))

\* qobj &= arg, or qobj = arg the first time
AndArg(c, arg) ==
    IF ~c.some THEN [c EXCEPT !.some = TRUE, !.ref = arg.i]
    ELSE Joined(c, logic(Qobj(c), c.h[arg.i], "AND"))

RECURSIVE AndArgs(_, _)
AndArgs(c, qargs) ==
    IF qargs = <<>> \/ c.err # "" THEN c
    ELSE AndArgs(AndArg(c, Head(qargs)), Tail(qargs))

RECURSIVE ReSplit(_)

\* A match t[a..b], the text before it, and the cut of what follows
ReCut(t, a, b) ==
    IF b > Len(t) THEN <<[m |-> FALSE, s |-> t]>>
    ELSE <<[m |-> FALSE, s |-> SubSeq(t, 1, a - 1)],
           [m |-> TRUE, s |-> SubSeq(t, a, b)]>>
         \o ReSplit(SubSeq(t, b + 1, Len(t)))

\* A match that opens at t[a], if it closes
ReOpen(t, a) == ReCut(t, a, FirstAt(t, a + 1, {"<<!"}))

\* reQ = re.compile(r"(!>>.*?<<!)") on a text: the text cut into the matches
\* (m) and the text between them
ReSplit(t) == ReOpen(t, FirstAt(t, 1, {"!>>"}))

\* The matches among the parts of a text, reQ.findall(text)
Matches(parts) == SelectSeq(parts, LAMBDA part : part.m)

\* The parts of a text with "?" for each match, reQ.sub("?", text)
Subbed(parts) ==
    Concat([k \in 1..Len(parts) |-> IF parts[k].m THEN <<"?">> ELSE parts[k].s])

\* A filter that selects nothing
AlwaysFalse == <<"1", "=", "0">>

\* The filter of a call without any condition
AlwaysTrue == <<"1", "=", "1">>

Compiled(err, qstr, qvals, h, n) ==
    [err |-> err, qstr |-> qstr, qvals |-> qvals, h |-> h, n |-> n]

RECURSIVE Firsts(_)
\* The matches without those that repeat an earlier one
Firsts(found) ==
    IF found = <<>> THEN <<>>
    ELSE <<Head(found)>>
         \o Firsts(SelectSeq(Tail(found), LAMBDA part : part # Head(found)))

\* Last lines that bind each token once, however often the text has it
BoundOnce(c, qdict, parts, found) ==
    IF \E k \in 1..Len(found) : found[k].s \notin DOMAIN qdict
    THEN Compiled("KeyError", <<>>, <<>>, c.h, c.n)
    ELSE Compiled("", Subbed(parts),
                  [k \in 1..Len(Firsts(found)) |-> qdict[Firsts(found)[k].s]],
                  c.h, c.n)

\* The last lines of _query2sql: qvals = [qobj._qdict[k] for k in findall],
\* qstr = reQ.sub("?", qobj._query)
Bound(c, qdict, parts, found) ==
    IF \E k \in 1..Len(found) : found[k].s \notin DOMAIN qdict
    THEN Compiled("KeyError", <<>>, <<>>, c.h, c.n)
    ELSE Compiled("", Subbed(parts), [k \in 1..Len(found) |-> qdict[found[k].s]],
                  c.h, c.n)

BoundParts(c, qdict, parts) == Bound(c, qdict, parts, Matches(parts))

\* _query2sql from "if qobj is None" on, for a qobj that is not None
QobjSql(c, qobj) ==
    IF qobj.query = None THEN Compiled("MissingValueError", <<>>, <<>>, c.h, c.n)
    ELSE BoundParts(c, qobj.qdict, ReSplit(qobj.query))

\* _query2sql after its loops
LoopsDone(c) ==
    IF c.err # "" THEN Compiled(c.err, <<>>, <<>>, c.h, c.n)
    ELSE IF ~c.some THEN Compiled("", AlwaysTrue, <<>>, c.h, c.n)
    ELSE QobjSql(c, Qobj(c))

\* _query2sql from its equalities on
EqualitiesSql(h, n, qargs, equalities) ==
    IF equalities.err # "" THEN Compiled(equalities.err, <<>>, <<>>, h, n)
    ELSE LoopsDone(AndArgs(AndEqualities(NoQobj(h, n), equalities.val), qargs))

\* JSONLiteDB._query2sql(*query_args, **query_kwargs) with the heap h and n
\* tokens drawn so far: the text, the values, and the heap after the call
query2sql(h, n, query_args, query_kwargs) ==
    EqualitiesSql(h, n, SelectSeq(query_args, LAMBDA arg : arg.t = "query"),
                  query_tuple2jsonpath(
                      SelectSeq(query_args, LAMBDA arg : arg.t # "query"),
                      query_kwargs))

-----------------------------------------------------------------------------
(* Python expressions that build the arguments of a call, evaluated left   *)
(* to right on a heap h: db.Q[path] <sym> val, a bare db.Q[path], an       *)
(* object of Query._from_equality, ~e, e1 & e2, e1 | e2, and a value that  *)
(* is passed as it is (a dict or a key).                                   *)

Cmp(path, sym, val) ==
    [k |-> "cmp", path |-> path, sym |-> sym, val |-> val, sub |-> <<>>]

Bare(path) ==
    [k |-> "bare", path |-> path, sym |-> "", val |-> PyNone, sub |-> <<>>]

Eq(path, val) ==
    [k |-> "eq", path |-> path, sym |-> "=", val |-> val, sub |-> <<>>]

Not(e) ==
    [k |-> "not", path |-> <<>>, sym |-> "NOT", val |-> PyNone, sub |-> <<e>>]

And(e1, e2) ==
    [k |-> "logic", path |-> <<>>, sym |-> "AND", val |-> PyNone,
     sub |-> <<e1, e2>>]

Or(e1, e2) ==
    [k |-> "logic", path |-> <<>>, sym |-> "OR", val |-> PyNone,
     sub |-> <<e1, e2>>]

Arg(val) ==
    [k |-> "arg", path |-> <<>>, sym |-> "", val |-> val, sub |-> <<>>]

Built(err, h, n, arg) == [err |-> err, h |-> h, n |-> n, arg |-> arg]

\* A new object on the heap
BuiltNew(h, n, obj) == Built("", Append(h, obj), n, PyQuery(Len(h) + 1))

\* db.Q[path] <sym> val with c the outcome of _compare
BuiltCompare(h, n, c) ==
    IF c.err # "" THEN Built(c.err, h, n, PyNone)
    ELSE BuiltNew(h, IF c.val.drew THEN n + 1 ELSE n, c.val.obj)

\* ~e with b the value of e
BuiltNot(b) ==
    IF b.err # "" THEN b
    ELSE [b EXCEPT !.h = [b.h EXCEPT ![b.arg.i] = invert(b.h[b.arg.i]).val]]

\* e1 <comb> e2 with l and r the values of e1 and e2, x the outcome of _logic
BuiltLogic(l, r, x) ==
    IF x.err # "" THEN Built(x.err, r.h, r.n, PyNone)
    ELSE Built("", [r.h EXCEPT ![l.arg.i] = x.val], r.n, l.arg)

BuiltRight(l, r, comb) ==
    IF r.err # "" THEN r
    ELSE BuiltLogic(l, r, logic(r.h[l.arg.i], r.h[r.arg.i], comb))

RECURSIVE Build(_, _, _)

BuiltLeft(e, l) ==
    IF l.err # "" THEN l ELSE BuiltRight(l, Build(e.sub[2], l.h, l.n), e.sym)

\* The value of the expression e: the heap and the token count after it, and
\* arg, the value itself (a reference into the heap for a Query object)
Build(e, h, n) ==
    CASE e.k = "arg" -> Built("", h, n, e.val)
      [] e.k = "bare" -> BuiltNew(h, n, getitem(QueryInit, PyTuple(e.path)).val)
      [] e.k = "cmp" ->
            BuiltCompare(h, n, compare(getitem(QueryInit, PyTuple(e.path)).val,
                                       e.val, e.sym, n + 1))
      [] e.k = "eq" ->
            BuiltNew(h, n + 1, from_equality(TuplePath(e.path), e.val, n + 1))
      [] e.k = "not" -> BuiltNot(Build(e.sub[1], h, n))
      [] e.k = "logic" -> BuiltLeft(e, Build(e.sub[1], h, n))

RECURSIVE BuildAll(_, _, _, _)

BuiltArg(es, args, b) ==
    IF b.err # "" THEN b ELSE BuildAll(Tail(es), b.h, b.n, Append(args, b.arg))

\* The arguments of a call, one expression after the other
BuildAll(es, h, n, args) ==
    IF es = <<>> THEN Built("", h, n, args)
    ELSE BuiltArg(es, args, Build(Head(es), h, n))

-----------------------------------------------------------------------------
(* The calls of JSONLiteDB on the rows of its table *)

Result(err, rows, h, n) == [err |-> err, rows |-> rows, h |-> h, n |-> n]

\* The cursor of the statement that query executes
Executed(c, res) == Result(res.err, res.val, c.h, c.n)

\* query once _query2sql has given c
Execute(c, rows) ==
    IF c.err # "" THEN Result(c.err, <<>>, c.h, c.n)
    ELSE Executed(c, Select(c.qstr, c.qvals, rows))

\* JSONLiteDB.query(*query_args, **query_kwargs) without _orderby and _limit
query(h, n, query_args, query_kwargs, rows) ==
    Execute(query2sql(h, n, query_args, query_kwargs), rows)

\* SELECT COUNT(rowid) for the rows res that the WHERE keeps
Counted(res) == [err |-> res.err, n |-> Len(res.rows)]

\* JSONLiteDB.count(*query_args, **query_kwargs)
count(h, n, query_args, query_kwargs, rows) ==
    Counted(query(h, n, query_args, query_kwargs, rows))

\* JSONLiteDB.items(): SELECT rowid, data FROM table
items(rows) == rows

\* JSONLiteDB.__len__(): SELECT COUNT(rowid) FROM table
len(rows) == Len(rows)

\* db.query(...) with b the value of its arguments
RunBuilt(b, kwargs, rows) ==
    IF b.err # "" THEN Result(b.err, <<>>, b.h, b.n)
    ELSE query(b.h, b.n, b.arg, kwargs, rows)

\* db.query(...) with the expressions es as positional arguments
Run(es, kwargs, rows) == RunBuilt(BuildAll(es, <<>>, 0, <<>>), kwargs, rows)

\* db.count(...) with b the value of its arguments
RunCountBuilt(b, kwargs, rows) ==
    IF b.err # "" THEN [err |-> b.err, n |-> 0]
    ELSE count(b.h, b.n, b.arg, kwargs, rows)

\* db.count(...) with the expressions es as positional arguments
RunCount(es, kwargs, rows) ==
    RunCountBuilt(BuildAll(es, <<>>, 0, <<>>), kwargs, rows)

\* Whether a row of JSON_EACH has the key child, for r the node at the path
\* given to JSON_EACH
HasKey(r, child) ==
    IF r.st = "error" THEN "E"
    ELSE IF r.st = "missing" THEN "F"
    ELSE IF r.v.t = "obj" THEN Bool3(child.t = "str" /\ child.s \in DOMAIN r.v.m)
    ELSE IF r.v.t = "arr"
         THEN Bool3(child.t = "int" /\ child.i >= 0 /\ child.i < Len(r.v.a))
    ELSE "F"

\* Whether each.key = child for a row of JSON_EACH(data, parent)
EachKey(doc, parent, child) == HasKey(PathLookup(doc, parent), child)

\* The parent path of query_by_path_exists for the split path
ExistsParent(h, path) ==
    IF Len(path) <= 1 THEN build_index_paths(<<QueryInit>>, PyQuery(1))
    ELSE build_index_paths(h, PyTuple(SubSeq(path, 1, Len(path) - 1)))

\* The child of query_by_path_exists for the split path
ExistsChild(path) == IF Len(path) = 0 THEN PyStr(<<>>) ELSE path[Len(path)]

\* SELECT DISTINCT rowid, data FROM table, JSON_EACH(data, ?) as each WHERE
\* each.key = ?, with the WHERE's value on each row known
ExistsFetch(rows, truths) ==
    Fetch(IF \E k \in 1..Len(truths) : truths[k] = "E"
          THEN "OperationalError" ELSE "", rows, truths)

ExistsSelect(parent, child, rows) ==
    IF parent.err # "" THEN Raise(parent.err)
    ELSE ExistsFetch(rows, [k \in 1..Len(rows) |->
                               EachKey(rows[k].data, parent.val, child)])

\* query_by_path_exists after path = split_query(path)
ExistsSplit(h, sp, rows) ==
    IF sp.err # "" THEN Raise(sp.err)
    ELSE ExistsSelect(ExistsParent(h, sp.val), ExistsChild(sp.val), rows)

\* JSONLiteDB.query_by_path_exists(path) without _orderby
query_by_path_exists(h, path, rows) == ExistsSplit(h, split_query(h, path), rows)

-----------------------------------------------------------------------------
(* The store: documents are inserted, up to MaxRows of them, and the table *)
(* is then read by one call. No read call changes the table, so the tables *)
(* that any order of calls can reach are those the inserts alone reach.    *)
(* objs holds the Query objects the caller built for the call, as the call *)
(* leaves them.                                                            *)

MaxRows == 2

KeyK == PyStr(<<"k">>)

KeyB == PyStr(<<"b">>)

\* A key that reads like a bind token
KeyBoom == PyStr(<<"!>>", "b", "<<!">>)

Docs == {JObj(KeyK.s :> JInt(1)),
         JObj(KeyK.s :> JNull),
         JObj(KeyK.s :> JObj(KeyB.s :> JNull)),
         JObj(KeyBoom.s :> JInt(1)),
         JObj(<<>> :> JInt(1)),
         JArr(<<JArr(<<JInt(1)>>)>>)}

StoreSyms == {"=", "!=", ">"}

Leaves == {Cmp(path, sym, val) : path \in {<<KeyK>>, <<KeyK, KeyB>>},
                                 sym \in StoreSyms, val \in Vals}
          \cup {Cmp(<<KeyBoom>>, "=", PyInt(1))}

\* Expressions that give a set Query object
Preds == {Cmp(<<KeyK>>, "=", PyNone), Cmp(<<KeyK>>, "!=", PyInt(1)),
          Cmp(<<KeyK, KeyB>>, "=", PyNone), Cmp(<<KeyBoom>>, "=", PyInt(1)),
          Eq(<<KeyK>>, PyInt(1)), Eq(<<KeyK>>, PyNone),
          Not(Cmp(<<KeyK>>, "=", PyInt(1)))}

Composed == {And(a, b) : a \in Preds, b \in Preds}
            \cup {Or(Cmp(<<KeyK>>, "=", PyNone), Cmp(<<KeyK>>, "=", PyInt(1))),
                  Not(Bare(<<KeyK>>)),
                  And(Cmp(<<KeyK>>, "=", PyInt(1)), Bare(<<KeyK>>))}

DictArgs == {Arg(PyDictOf(<<<<key, val>>>>)) :
                key \in {KeyK, PyTuple(<<KeyK, KeyB>>), KeyBoom}, val \in Vals}
            \cup {Arg(KeyK)}

ArgForms == {<<>>}
            \cup {<<e>> : e \in Leaves \cup Preds \cup Composed \cup DictArgs
                                 \cup {Bare(<<KeyK>>)}}
            \cup {<<a, b>> : a \in Preds, b \in Preds}
            \cup {<<d, e>> : d \in DictArgs, e \in {Cmp(<<KeyK>>, "!=", PyNone)}}

Calls == {[args |-> a, kwargs |-> <<>>] : a \in ArgForms}
         \cup {[args |-> <<>>, kwargs |-> <<<<KeyK, val>>>>] : val \in Vals}

CountCalls == {[args |-> <<>>, kwargs |-> <<>>],
               [args |-> <<Cmp(<<KeyK>>, "=", PyNone)>>, kwargs |-> <<>>]}

ExistPaths == {KeyK, PyTuple(<<KeyK, KeyB>>), KeyBoom, PyInt(0),
               PyTuple(<<PyInt(0), PyInt(0)>>),
               PyNone, PyTuple(<<>>), PyStr(<<>>)}

Loading == last.op \in {"init", "insert"}

\* db.insert(doc)
Insert(doc) ==
    /\ Loading
    /\ Len(table) < MaxRows
    /\ table' = Append(table, [rowid |-> nextid, data |-> doc])
    /\ nextid' = nextid + 1
    /\ last' = [op |-> "insert", err |-> ""]
    /\ UNCHANGED <<file, cursor, indexes, context_count, conn, objs, ntok, steps>>

\* list(db.query(*es, **kwargs))
QueryCall(es, kwargs) ==
    /\ Loading
    /\ \E res \in {Run(es, kwargs, table)} :
          /\ objs' = res.h
          /\ ntok' = res.n
          /\ last' = [op |-> "query", args |-> es, kwargs |-> kwargs,
                      err |-> res.err, rows |-> res.rows]
    /\ UNCHANGED <<file, cursor, indexes, context_count, conn, table, nextid, steps>>

\* db.count(*es, **kwargs)
CountCall(es, kwargs) ==
    /\ Loading
    /\ \E res \in {RunCount(es, kwargs, table)} :
          last' = [op |-> "count", args |-> es, kwargs |-> kwargs,
                   err |-> res.err, n |-> res.n]
    /\ UNCHANGED <<file, cursor, indexes, context_count, conn, objs, table, nextid, ntok, steps>>

\* list(db.items())
ItemsCall ==
    /\ Loading
    /\ last' = [op |-> "items", err |-> "", rows |-> items(table)]
    /\ UNCHANGED <<file, cursor, indexes, context_count, conn, objs, table, nextid, ntok, steps>>

\* len(db)
LenCall ==
    /\ Loading
    /\ last' = [op |-> "len", err |-> "", n |-> len(table)]
    /\ UNCHANGED <<file, cursor, indexes, context_count, conn, objs, table, nextid, ntok, steps>>

\* list(db.query_by_path_exists(path))
QueryByPathExists(path) ==
    /\ Loading
    /\ \E res \in {query_by_path_exists(<<>>, path, table)} :
          last' = [op |-> "query_by_path_exists", path |-> path,
                   err |-> res.err, rows |-> res.val]
    /\ UNCHANGED <<file, cursor, indexes, context_count, conn, objs, table, nextid, ntok, steps>>

InitStore ==
    /\ objs = <<>>
    /\ table = <<>>
    /\ nextid = 1
    /\ ntok = 0
    /\ steps = 0
    /\ indexes = {}
    /\ context_count = 0
    /\ conn = Autocommit
    /\ cursor = NoCursor
    /\ file = Constructed
    /\ last = [op |-> "init", err |-> ""]

NextStore ==
    \/ \E doc \in Docs : Insert(doc)
    \/ \E call \in Calls : QueryCall(call.args, call.kwargs)
    \/ \E call \in CountCalls : CountCall(call.args, call.kwargs)
    \/ ItemsCall
    \/ LenCall
    \/ \E path \in ExistPaths : QueryByPathExists(path)

SpecStore == InitStore /\ [][NextStore]_vars

-----------------------------------------------------------------------------
(* The statements that change the database. A database is its rows in     *)
(* rowid order, nextid (one more than the seq that sqlite_sequence keeps   *)
(* for the AUTOINCREMENT rowid) and its indexes, each with its name, the   *)
(* canonical paths of its JSON_EXTRACT expressions and its UNIQUE flag.    *)

Db(rows, next, ixs) == [table |-> rows, nextid |-> next, indexes |-> ixs]

\* The key of a document in an index on the paths
IndexKey(doc, paths) == [k \in 1..Len(paths) |-> JsonExtract(doc, paths[k])]

\* A JSON path error in an expression of the key
KeyFails(key) == \E k \in 1..Len(key) : key[k].err # ""

\* Two keys that a UNIQUE index takes for the same: no NULL is the same as
\* another value
KeysClash(a, b) ==
    \A k \in 1..Len(a) : a[k].val.t # "null" /\ SqlEq(a[k].val, b[k].val)

\* Two rows with the same key on the paths
RowsClash(rows, paths) ==
    \E i \in 1..Len(rows) : \E j \in (i + 1)..Len(rows) :
       KeysClash(IndexKey(rows[i].data, paths), IndexKey(rows[j].data, paths))

\* A statement that fails leaves the database as it was
Failed(e, d) == [err |-> e, val |-> d]

\* CREATE [UNIQUE] INDEX IF NOT EXISTS name ON table(JSON_EXTRACT(data, path), ...)
CreateIndexSql(d, name, paths, unique) ==
    IF \E ix \in d.indexes : ix.name = name THEN Ok(d)
    ELSE IF \E k \in 1..Len(d.table) : KeyFails(IndexKey(d.table[k].data, paths))
         THEN Failed("OperationalError", d)
    ELSE IF unique /\ RowsClash(d.table, paths) THEN Failed("IntegrityError", d)
    ELSE Ok([d EXCEPT !.indexes =
                 @ \cup {[name |-> name, paths |-> paths, unique |-> unique]}])

\* DROP INDEX IF EXISTS name
DropIndexSql(d, name) ==
    Ok([d EXCEPT !.indexes = {ix \in @ : ix.name # name}])

RECURSIVE IndexPaths(_, _, _)

IndexPathsAppend(h, args, paths, path) ==
    IF path.err # "" THEN path
    ELSE IndexPaths(h, Tail(args), Append(paths, path.val))

\* The loop of build_index_paths(*args) with the heap h
IndexPaths(h, args, paths) ==
    IF args = <<>> THEN Ok(paths)
    ELSE IndexPathsAppend(h, args, paths, build_index_paths(h, Head(args)))

\* f"ix_{self.table}_" + hashlib.md5("=".join(paths).encode()).hexdigest()[:8],
\* with "_UNIQUE" after it for a unique index. The digest stands as the
\* text it is the digest of: the same text gives the same digest, and two
\* texts are taken to give two digests.
index_name(paths, unique) ==
    [prefix |-> "ix_items_", md5 |-> Join(paths, <<"=">>),
     suffix |-> IF unique THEN "_UNIQUE" ELSE ""]

\* The rows of the table that clash with the document under a UNIQUE index,
\* the row with the rowid skip left out
Clashing(d, doc, skip) ==
    {k \in 1..Len(d.table) :
        /\ d.table[k].rowid # skip
        /\ \E ix \in d.indexes :
              /\ ix.unique
              /\ KeysClash(IndexKey(d.table[k].data, ix.paths),
                           IndexKey(doc, ix.paths))}

\* The rows of a table without those at the places gone
Without(rows, gone) ==
    SelectSeq([k \in 1..Len(rows) |-> [at |-> k, row |-> rows[k]]],
              LAMBDA e : e.at \notin gone)

Rows(entries) == [k \in 1..Len(entries) |-> entries[k].row]

\* An INSERT that no UNIQUE index holds back
InsertUnchecked(d, doc, rtxt, clash) ==
    Ok(Db(Append(d.table, [rowid |-> d.nextid, data |-> doc]),
          d.nextid + 1, d.indexes))

\* INSERT [OR REPLACE | OR IGNORE] INTO table (data) VALUES (JSON(?)) with
\* clash the rows that clash with the document
InsertClash(d, doc, rtxt, clash) ==
    IF clash = {}
    THEN Ok(Db(Append(d.table, [rowid |-> d.nextid, data |-> doc]),
               d.nextid + 1, d.indexes))
    ELSE IF rtxt = "" THEN Failed("IntegrityError", d)
    ELSE IF rtxt = "OR IGNORE" THEN Ok(Db(d.table, d.nextid + 1, d.indexes))
    ELSE Ok(Db(Append(Rows(Without(d.table, clash)),
                      [rowid |-> d.nextid, data |-> doc]),
               d.nextid + 1, d.indexes))

\* An INSERT into a table whose rowid is not AUTOINCREMENT: the new row gets
\* one more than the highest rowid of the table
InsertAfterHighest(d, doc, rtxt) ==
    Ok(Db(Append(d.table,
                 [rowid |-> IF d.table = <<>> THEN 1
                            ELSE d.table[Len(d.table)].rowid + 1,
                  data |-> doc]),
          d.nextid + 1, d.indexes))

InsertSql(d, doc, rtxt) ==
    IF \E ix \in d.indexes : KeyFails(IndexKey(doc, ix.paths))
    THEN Failed("OperationalError", d)
    ELSE InsertClash(d, doc, rtxt, Clashing(d, doc, 0))

\* The row with the rowid gets the document
SetData(rows, rowid, doc) ==
    [k \in 1..Len(rows) |-> IF rows[k].rowid = rowid
                            THEN [rowid |-> rowid, data |-> doc] ELSE rows[k]]

\* UPDATE [OR REPLACE | OR IGNORE] table SET data = JSON(?) WHERE rowid = ?
\* with clash the other rows that clash with the document
UpdateClash(d, doc, rowid, rtxt, clash) ==
    IF clash = {} THEN Ok([d EXCEPT !.table = SetData(@, rowid, doc)])
    ELSE IF rtxt = "" THEN Failed("IntegrityError", d)
    ELSE IF rtxt = "OR IGNORE" THEN Ok(d)
    ELSE Ok([d EXCEPT !.table = SetData(Rows(Without(@, clash)), rowid, doc)])

UpdateSql(d, doc, rowid, rtxt) ==
    IF \A k \in 1..Len(d.table) : d.table[k].rowid # rowid THEN Ok(d)
    ELSE IF \E ix \in d.indexes : KeyFails(IndexKey(doc, ix.paths))
         THEN Failed("OperationalError", d)
    ELSE UpdateClash(d, doc, rowid, rtxt, Clashing(d, doc, rowid))

\* DELETE FROM table WHERE qstr, for sel the rows the WHERE keeps
DeleteKept(d, sel) ==
    IF sel.err # "" THEN Failed(sel.err, d)
    ELSE Ok([d EXCEPT !.table = SelectSeq(@, LAMBDA row :
                 \A k \in 1..Len(sel.val) : sel.val[k].rowid # row.rowid)])

DeleteSql(d, qstr, qvals) == DeleteKept(d, Select(qstr, qvals, d.table))

RECURSIVE json_patch(_, _)

\* The merge of the object with the members m and an object patch with the
\* members pm: a member that the patch gives as null goes, another is
\* merged with the member of the same key
MergeInto(m, pm) ==
    JObj([key \in (DOMAIN m \cup DOMAIN pm)
                     \ {gone \in DOMAIN pm : pm[gone].t = "null"} |->
             IF key \notin DOMAIN pm THEN m[key]
             ELSE json_patch(IF key \in DOMAIN m THEN m[key] ELSE JNull,
                             pm[key])])

\* JSON_PATCH(data, patchitem), the merge patch of RFC 7396: a patch that
\* is no object takes the place of the data, and data that is no object is
\* taken for an empty one
json_patch(data, patchitem) ==
    IF patchitem.t # "obj" THEN patchitem
    ELSE MergeInto(IF data.t = "obj" THEN data.m ELSE <<>>, patchitem.m)

\* An UPDATE that patches every row, whatever the WHERE keeps
PatchedEveryRow(rows, sel, patchitem) ==
    [k \in 1..Len(rows) |->
        [rowid |-> rows[k].rowid,
         data |-> json_patch(rows[k].data, patchitem)]]

\* The rows with JSON_PATCH applied to those that the WHERE keeps
Patched(rows, sel, patchitem) ==
    [k \in 1..Len(rows) |->
        IF \E j \in 1..Len(sel) : sel[j].rowid = rows[k].rowid
        THEN [rowid |-> rows[k].rowid,
              data |-> json_patch(rows[k].data, patchitem)]
        ELSE rows[k]]

\* The UPDATE of patch once the rows are patched
PatchChecked(d, rows) ==
    IF \E ix \in d.indexes : \E k \in 1..Len(rows) :
          KeyFails(IndexKey(rows[k].data, ix.paths))
    THEN Failed("OperationalError", d)
    ELSE IF \E ix \in d.indexes : ix.unique /\ RowsClash(rows, ix.paths)
         THEN Failed("IntegrityError", d)
    ELSE Ok([d EXCEPT !.table = rows])

PatchKept(d, sel, patchitem) ==
    IF sel.err # "" THEN Failed(sel.err, d)
    ELSE PatchChecked(d, Patched(d.table, sel.val, patchitem))

\* UPDATE table SET data = JSON_PATCH(data, JSON(?)) WHERE qstr
PatchSql(d, patchitem, qstr, qvals) ==
    PatchKept(d, Select(qstr, qvals, d.table), patchitem)

-----------------------------------------------------------------------------
(* Transactions. The sqlite3 connection opens a transaction before the     *)
(* first INSERT, UPDATE or DELETE it executes outside one, and keeps what  *)
(* the database was at that point for a rollback; a CREATE INDEX or DROP   *)
(* INDEX outside a transaction is committed when it has run. The           *)
(* connection's __exit__ commits, or rolls back when an exception leaves   *)
(* the block.                                                              *)

\* The connection in a transaction that began on the database d
InTransaction(d) == [in_transaction |-> TRUE, db |-> d]

\* The connection once it has been asked to execute an INSERT, UPDATE or
\* DELETE on the database d
Begun(c, d) == IF c.in_transaction THEN c ELSE InTransaction(d)

\* What a call leaves: its error, the database, the connection, whether it
\* called the connection's __enter__, and how it ended a transaction
Outcome(err, d, c, entered, ended) ==
    [err |-> err, db |-> d, conn |-> c, entered |-> entered, ended |-> ended]

\* An __exit__ that calls the connection's __exit__ whatever the count
exit_every_block(depth, c, res) ==
    IF res.err # ""
    THEN Outcome(res.err, IF c.in_transaction THEN c.db ELSE res.val,
                 Autocommit, FALSE, "rollback")
    ELSE Outcome("", res.val, Autocommit, FALSE, "commit")

\* JSONLiteDB.__exit__ when context_count is depth, for res the error that
\* leaves the block, if any, and the database as the block left it: the
\* connection's __exit__ is called when the count comes to 0
exit(depth, c, res) ==
    IF depth > 1 THEN Outcome(res.err, res.val, c, FALSE, "")
    ELSE IF res.err # ""
         THEN Outcome(res.err, IF c.in_transaction THEN c.db ELSE res.val,
                      Autocommit, FALSE, "rollback")
    ELSE Outcome("", res.val, Autocommit, FALSE, "commit")

\* with self: the statements, which gave res on the database d, when
\* context_count is depth; dml for an INSERT, UPDATE or DELETE that the
\* connection came to execute. JSONLiteDB.__enter__ calls the connection's
\* __enter__ when the count is 0.
WithSelf(depth, c, d, res, dml) ==
    [exit(depth + 1, IF dml THEN Begun(c, d) ELSE c, res)
        EXCEPT !.entered = (depth = 0)]

\* A call that raises before its with block
Raised(e, c, d) == Outcome(e, d, c, FALSE, "")

-----------------------------------------------------------------------------
(* The calls of JSONLiteDB that change the database d, made when           *)
(* context_count is depth and the connection is c. A Python item is its    *)
(* document and its rowid attribute, 0 when it has none (the rowid of a    *)
(* row is 1 at least); a rowid argument is None or an int.                 *)

Item(doc, rowid) == [doc |-> doc, rowid |-> rowid]

\* json.dumps(item): the document without the attribute
dumps(item) == item.doc

\* The values of duplicates that insertmany and update take
Duplicates == {"False", "True", "replace", "ignore"}

\* An rtxt that takes True and "replace" for "ignore"
RtxtNeverReplace(duplicates) ==
    IF duplicates = "False" THEN "" ELSE "OR IGNORE"

\* rtxt for a value of duplicates
Rtxt(duplicates) ==
    IF duplicates = "False" THEN ""
    ELSE IF duplicates \in {"True", "replace"} THEN "OR REPLACE"
    ELSE "OR IGNORE"

\* executemany of the INSERT: one execution for each item, up to the first
\* that fails
RECURSIVE ExecuteMany(_, _, _)

ExecuteNext(ins, rtxt, res) ==
    IF res.err # "" THEN res ELSE ExecuteMany(res.val, Tail(ins), rtxt)

ExecuteMany(d, ins, rtxt) ==
    IF ins = <<>> THEN Ok(d)
    ELSE ExecuteNext(ins, rtxt, InsertSql(d, dumps(Head(ins)), rtxt))

\* JSONLiteDB.insertmany(items, duplicates=duplicates)
insertmany(depth, c, d, ins, duplicates) ==
    IF duplicates \notin Duplicates THEN Raised("ValueError", c, d)
    ELSE WithSelf(depth, c, d, ExecuteMany(d, ins, Rtxt(duplicates)), TRUE)

\* JSONLiteDB.insert(*items, duplicates=duplicates)
insert(depth, c, d, ins, duplicates) == insertmany(depth, c, d, ins, duplicates)

\* update once rowid = rowid or getattr(item, "rowid", None), 0 for None
UpdateRow(depth, c, d, item, rowid, duplicates) ==
    IF rowid = 0 THEN Raised("MissingRowIDError", c, d)
    ELSE IF duplicates \notin Duplicates THEN Raised("ValueError", c, d)
    ELSE WithSelf(depth, c, d,
                  UpdateSql(d, dumps(item), rowid, Rtxt(duplicates)), TRUE)

\* JSONLiteDB.update(item, rowid=rowid, duplicates=duplicates)
update(depth, c, d, item, rowid, duplicates) ==
    UpdateRow(depth, c, d, item,
              IF Falsy(rowid) THEN item.rowid ELSE rowid.i, duplicates)

\* Whether SQLite prepares a statement with the WHERE text
Prepares(qstr) == \A k \in 1..Len(qstr) : qstr[k] # "None"

\* remove once _query2sql has given compiled
RemoveCompiled(depth, c, d, compiled) ==
    IF compiled.err # "" THEN Raised(compiled.err, c, d)
    ELSE WithSelf(depth, c, d, DeleteSql(d, compiled.qstr, compiled.qvals),
                  Prepares(compiled.qstr))

\* JSONLiteDB.remove(*query_args, **query_kwargs) with the heap h
remove(depth, c, d, h, n, query_args, query_kwargs) ==
    RemoveCompiled(depth, c, d, query2sql(h, n, query_args, query_kwargs))

\* JSONLiteDB.purge()
purge(depth, c, d) == remove(depth, c, d, <<>>, 0, <<>>, <<>>)

\* patch once _query2sql has given compiled
PatchCompiled(depth, c, d, patchitem, compiled) ==
    IF compiled.err # "" THEN Raised(compiled.err, c, d)
    ELSE WithSelf(depth, c, d,
                  PatchSql(d, patchitem, compiled.qstr, compiled.qvals),
                  Prepares(compiled.qstr))

\* JSONLiteDB.patch(patchitem, *query_args, **query_kwargs) with the heap h
patch(depth, c, d, h, n, patchitem, query_args, query_kwargs) ==
    PatchCompiled(depth, c, d, patchitem,
                  query2sql(h, n, query_args, query_kwargs))

\* create_index from its index_name on, for paths the outcome of
\* build_index_paths
CreateIndexAt(depth, c, d, paths, unique) ==
    IF paths.err # "" THEN Raised(paths.err, c, d)
    ELSE WithSelf(depth, c, d,
                  CreateIndexSql(d, index_name(paths.val, unique), paths.val,
                                 unique), FALSE)

\* JSONLiteDB.create_index(*args, unique=unique) with the heap h
create_index(depth, c, d, h, args, unique) ==
    CreateIndexAt(depth, c, d, IndexPaths(h, args, <<>>), unique)

\* JSONLiteDB.drop_index_by_name(name)
drop_index_by_name(depth, c, d, name) ==
    WithSelf(depth, c, d, DropIndexSql(d, name), FALSE)

DropIndexAt(depth, c, d, paths, unique) ==
    IF paths.err # "" THEN Raised(paths.err, c, d)
    ELSE drop_index_by_name(depth, c, d, index_name(paths.val, unique))

\* JSONLiteDB.drop_index(*args, unique=unique) with the heap h
drop_index(depth, c, d, h, args, unique) ==
    DropIndexAt(depth, c, d, IndexPaths(h, args, <<>>), unique)

\* JSONLiteDB.indexes: the paths of each index by its name
Indexes(d) == {[name |-> ix.name, paths |-> ix.paths] : ix \in d.indexes}

\* The item for the data of a row: a dict or a list gets the rowid
\* attribute, another value is returned as it is
Tagged(data, rowid) ==
    Item(data, IF data.t \in {"obj", "arr"} THEN rowid ELSE 0)

\* json.loads of the data of a row, then the rowid attribute: null loads
\* as None
Loaded(data, rowid) ==
    IF data.t = "null" THEN PyNone ELSE Tagged(data, rowid)

\* JSONLiteDB.get_by_rowid(rowid): the item of the row, None without it
get_by_rowid(d, rowid) ==
    IF \E k \in 1..Len(d.table) : d.table[k].rowid = rowid
    THEN Loaded((CHOOSE row \in {d.table[k] : k \in 1..Len(d.table)} :
                    row.rowid = rowid).data, rowid)
    ELSE PyNone

\* __getitem__ once get_by_rowid has given the item
GetItemOf(item) ==
    IF item = PyNone THEN Raise("IndexError") ELSE Ok(item)

\* JSONLiteDB.__getitem__(rowid) for rowid an int or a tuple
db_getitem(d, rowid) ==
    IF rowid.t = "tuple" THEN Raise("TypeError")
    ELSE GetItemOf(get_by_rowid(d, rowid.i))

-----------------------------------------------------------------------------
(* The database under the calls that change it. last records the latest    *)
(* call: its arguments, its error, whether it called the connection's      *)
(* __enter__ and how it ended a transaction, and the database, the         *)
(* connection and context_count as they were before it.                    *)

\* The highest rowid that the model lets the table give
MaxRowid == 4

\* The deepest nesting of with blocks of the caller
MaxDepth == 2

\* The most rows that the model lets the table of the metadata hold
MaxKv == 4

Now == Db(table, nextid, indexes)

\* The state after a call with the outcome out
Applied(out, call) ==
    /\ table' = out.db.table
    /\ nextid' = out.db.nextid
    /\ indexes' = out.db.indexes
    /\ conn' = out.conn
    /\ last' = [op |-> call.op, call |-> call, err |-> out.err,
                entered |-> out.entered, ended |-> out.ended,
                depth |-> context_count, before |-> Now, was |-> conn]

\* db.insert(*ins, duplicates=duplicates)
InsertCall(ins, duplicates) ==
    /\ nextid + Len(ins) <= MaxRowid + 1
    /\ \A k \in 1..Len(ins) : ins[k].rowid < nextid
    /\ \E out \in {insert(context_count, conn, Now, ins, duplicates)} :
          /\ Len(out.db.table) <= MaxRows
          /\ Applied(out, [op |-> "insert", ins |-> ins,
                           duplicates |-> duplicates])
    /\ UNCHANGED <<file, cursor, objs, ntok, steps, context_count>>

\* db.update(item, rowid=rowid, duplicates=duplicates)
UpdateCall(item, rowid, duplicates) ==
    /\ item.rowid < nextid
    /\ \E out \in {update(context_count, conn, Now, item, rowid, duplicates)} :
          Applied(out, [op |-> "update", item |-> item, rowid |-> rowid,
                        duplicates |-> duplicates])
    /\ UNCHANGED <<file, cursor, objs, ntok, steps, context_count>>

\* db.remove(**kwargs)
RemoveCall(kwargs) ==
    /\ \E out \in {remove(context_count, conn, Now, <<>>, 0, <<>>, kwargs)} :
          Applied(out, [op |-> "remove", kwargs |-> kwargs])
    /\ UNCHANGED <<file, cursor, objs, ntok, steps, context_count>>

\* db.patch(patchitem, **kwargs)
PatchCall(patchitem, kwargs) ==
    /\ \E out \in {patch(context_count, conn, Now, <<>>, 0, patchitem, <<>>,
                          kwargs)} :
          Applied(out, [op |-> "patch", patchitem |-> patchitem,
                        kwargs |-> kwargs])
    /\ UNCHANGED <<file, cursor, objs, ntok, steps, context_count>>

\* db.purge()
PurgeCall ==
    /\ \E out \in {purge(context_count, conn, Now)} :
          Applied(out, [op |-> "purge"])
    /\ UNCHANGED <<file, cursor, objs, ntok, steps, context_count>>

\* db.create_index(*args, unique=unique)
CreateIndexCall(args, unique) ==
    /\ \E paths \in {IndexPaths(objs, args, <<>>)} :
          \E out \in {CreateIndexAt(context_count, conn, Now, paths, unique)} :
             Applied(out, [op |-> "create_index", args |-> args,
                           unique |-> unique, paths |-> paths])
    /\ UNCHANGED <<file, cursor, objs, ntok, steps, context_count>>

\* db.drop_index(*args, unique=unique)
DropIndexCall(args, unique) ==
    /\ \E paths \in {IndexPaths(objs, args, <<>>)} :
          \E out \in {DropIndexAt(context_count, conn, Now, paths, unique)} :
             Applied(out, [op |-> "drop_index", args |-> args,
                           unique |-> unique, paths |-> paths])
    /\ UNCHANGED <<file, cursor, objs, ntok, steps, context_count>>

\* with db: the caller enters a block
Enter ==
    /\ context_count < MaxDepth
    /\ context_count' = context_count + 1
    /\ last' = [op |-> "enter", call |-> [op |-> "enter"], err |-> "",
                entered |-> (context_count = 0), ended |-> "",
                depth |-> context_count, before |-> Now, was |-> conn]
    /\ UNCHANGED <<file, cursor, objs, table, nextid, ntok, steps, indexes, conn>>

\* The caller leaves its innermost block, with an exception for exc
Exit(exc) ==
    /\ context_count > 0
    /\ context_count' = context_count - 1
    /\ \E out \in {exit(context_count, conn,
                        Failed(IF exc THEN "Exception" ELSE "", Now))} :
          Applied(out, [op |-> "exit", exc |-> exc])
    /\ UNCHANGED <<file, cursor, objs, ntok, steps>>

-----------------------------------------------------------------------------
(* The construction of a JSONLiteDB on the file f: _init looks the         *)
(* metadata up with about() and, when that raises, creates the tables and  *)
(* writes the metadata. A statement that reads fails on a file that        *)
(* another connection holds locked unless the journal is a WAL; one that   *)
(* writes fails on a locked file.                                          *)

Locked == "OperationalError: database is locked"

NoSuchTable == "OperationalError: no such table"

NoSuchColumn == "OperationalError: no such column"

\* The values of the rows of the metadata with the key
KvVals(rows, key) ==
    SelectSeq(rows, LAMBDA row : row[1] = key)

\* created, version = [i["val"] for i in r] for the rows of the two keys,
\* ORDER BY key
AboutRows(created, version) ==
    IF Len(created) + Len(version) # 2 THEN Raise("ValueError")
    ELSE Ok((created \o version))

\* JSONLiteDB.about()
about(f) ==
    IF f.locked /\ ~f.wal THEN Raise(Locked)
    ELSE IF ~f.kv.there THEN Raise(NoSuchTable)
    ELSE IF ~f.kv.keyed THEN Raise(NoSuchColumn)
    ELSE AboutRows(KvVals(f.kv.rows, "created"), KvVals(f.kv.rows, "version"))

\* CREATE TABLE IF NOT EXISTS for the table of the items and for the table
\* of the metadata
CreateTables(f) ==
    IF f.locked THEN Failed(Locked, f)
    ELSE Ok([f EXCEPT !.items = TRUE,
                      !.kv = IF @.there THEN @ ELSE Kv(TRUE, <<>>)])

\* INSERT OR IGNORE INTO table_kv VALUES (key, val): a table without the
\* PRIMARY KEY takes the row whatever it holds
InsertOrIgnore(f, key, val) ==
    IF f.kv.keyed /\ KvVals(f.kv.rows, key) # <<>> THEN f
    ELSE [f EXCEPT !.kv.rows = Append(@, <<key, val>>)]

\* The two INSERT OR IGNORE of _init at the time now
WriteAbout(r, now) ==
    IF r.err # "" THEN r
    ELSE Ok(InsertOrIgnore(InsertOrIgnore(r.val, "created", now),
                           "version", "JSONLiteDB-0.1.9"))

\* PRAGMA journal_mode = wal, with an OperationalError passed over
JournalMode(r, wal_mode) ==
    IF r.err # "" \/ ~wal_mode \/ r.val.locked THEN r
    ELSE Ok([r.val EXCEPT !.wal = TRUE])

\* _init once about() has given looked: a bare except passes over whatever
\* it raised
init(f, wal_mode, now, looked) ==
    IF looked.err = "" THEN Ok(f)
    ELSE JournalMode(WriteAbout(CreateTables(f), now), wal_mode)

\* JSONLiteDB(dbpath, wal_mode=wal_mode) at the time now
Construct(wal_mode, now) ==
    /\ Len(file.kv.rows) < MaxKv
    /\ \E looked \in {about(file)} :
          \E r \in {init(file, wal_mode, now, looked)} :
             /\ file' = r.val
             /\ last' = [op |-> "construct", err |-> r.err, before |-> file,
                         about |-> looked.err]
    /\ UNCHANGED <<cursor, objs, table, nextid, ntok, steps, indexes,
                   context_count, conn>>

\* Another connection takes the lock of the file, or gives it back
Lock(held) ==
    /\ file.locked # held
    /\ file' = [file EXCEPT !.locked = held]
    /\ last' = [op |-> "lock", err |-> ""]
    /\ UNCHANGED <<cursor, objs, table, nextid, ntok, steps, indexes,
                   context_count, conn>>

-----------------------------------------------------------------------------
(* class QueryResult over its cursor c, and the calls that make one. What  *)
(* a method gives is its exception, the item or the list it returns, and   *)
(* the cursor as it leaves it.                                             *)

Given(err, item, list, c) ==
    [err |-> err, item |-> item, list |-> list, to |-> c]

\* The cursor of a statement that selected the rows
Cursor(rows) == [open |-> TRUE, selected |-> rows, at |-> 0]

\* A next that gives the first row again each time
next_restarts(c) ==
    IF c.selected = <<>> THEN Given("StopIteration", PyNone, <<>>, c)
    ELSE Given("", Loaded(c.selected[1].data, c.selected[1].rowid), <<>>, c)

\* QueryResult.next(): next(self.res) raises StopIteration after the last
\* row; the item is loaded and tagged as in get_by_rowid
next(c) ==
    IF c.at >= Len(c.selected) THEN Given("StopIteration", PyNone, <<>>, c)
    ELSE Given("", Loaded(c.selected[c.at + 1].data,
                          c.selected[c.at + 1].rowid), <<>>,
               [c EXCEPT !.at = @ + 1])

\* QueryResult.fetchone() for got what next(self) gave
FetchOneOf(got) ==
    IF got.err = "StopIteration" THEN Given("", PyNone, <<>>, got.to) ELSE got

fetchone(c) == FetchOneOf(next(c))

\* self.res.arraysize
arraysize == 1

RECURSIVE FetchLoop(_, _, _)

FetchStep(size, out, got) ==
    IF got.err = "StopIteration" THEN Given("", PyNone, out, got.to)
    ELSE FetchLoop(got.to, size - 1, Append(out, got.item))

\* for _ in range(size): out.append(next(self)), up to StopIteration
FetchLoop(c, size, out) ==
    IF size <= 0 THEN Given("", PyNone, out, c)
    ELSE FetchStep(size, out, next(c))

\* QueryResult.fetchmany(size)
fetchmany(c, size) ==
    FetchLoop(c, IF Falsy(size) THEN arraysize ELSE size.i, <<>>)

RECURSIVE ListLoop(_, _)

ListStep(out, got) ==
    IF got.err = "StopIteration" THEN Given("", PyNone, out, got.to)
    ELSE ListLoop(got.to, Append(out, got.item))

\* list(self)
ListLoop(c, out) == ListStep(out, next(c))

\* QueryResult.fetchall()
fetchall(c) == ListLoop(c, <<>>)

\* The rows that the SELECT gives with limit = f"LIMIT {_limit:d}" if
\* _limit else "": SQLite takes a negative LIMIT for none
Limited(rows, _limit) ==
    IF Falsy(_limit) THEN rows
    ELSE IF _limit.i < 0 \/ _limit.i >= Len(rows) THEN rows
    ELSE SubSeq(rows, 1, _limit.i)

QueryLimited(r, _limit) == [r EXCEPT !.rows = Limited(@, _limit)]

\* JSONLiteDB.query(*query_args, _limit=_limit, **query_kwargs)
query_limit(h, n, query_args, query_kwargs, _limit, rows) ==
    QueryLimited(query(h, n, query_args, query_kwargs, rows), _limit)

\* query_one for r the outcome of its query
QueryOneOf(r) ==
    IF r.err # "" THEN Given(r.err, PyNone, <<>>, NoCursor)
    ELSE FetchOneOf(next(Cursor(r.rows)))

\* JSONLiteDB.query_one(*query_args, **query_kwargs)
query_one(h, n, query_args, query_kwargs, rows) ==
    QueryOneOf(query_limit(h, n, query_args, query_kwargs, PyInt(1), rows))

\* res = db.query(**kwargs, _limit=_limit)
QueryOpen(kwargs, _limit) ==
    /\ \E r \in {query_limit(<<>>, 0, <<>>, kwargs, _limit, table)} :
          /\ cursor' = IF r.err = "" THEN Cursor(r.rows) ELSE cursor
          /\ last' = [op |-> "query", kwargs |-> kwargs, limit |-> _limit,
                      err |-> r.err]
    /\ UNCHANGED <<file, objs, table, nextid, ntok, steps, indexes, context_count,
                   conn>>

\* db.query_one(**kwargs)
QueryOne(kwargs) ==
    /\ \E got \in {query_one(<<>>, 0, <<>>, kwargs, table)} :
          last' = [op |-> "query_one", kwargs |-> kwargs, err |-> got.err,
                   item |-> got.item]
    /\ UNCHANGED <<file, cursor, objs, table, nextid, ntok, steps, indexes,
                   context_count, conn>>

\* A method of res was called and gave got
Fetched(op, size, got) ==
    /\ cursor.open
    /\ cursor' = got.to
    /\ last' = [op |-> op, size |-> size, err |-> got.err, item |-> got.item,
                list |-> got.list, before |-> cursor]
    /\ UNCHANGED <<file, objs, table, nextid, ntok, steps, indexes, context_count,
                   conn>>

\* next(res)
ResultNext == Fetched("next", PyNone, next(cursor))

\* res.fetchone()
FetchOne == Fetched("fetchone", PyNone, fetchone(cursor))

\* res.fetchmany(size)
FetchMany(size) == Fetched("fetchmany", size, fetchmany(cursor, size))

\* res.fetchall()
FetchAll == Fetched("fetchall", PyNone, fetchall(cursor))

\* db[rowid]
GetItemCall(rowid) ==
    /\ \E out \in {db_getitem(Now, rowid)} :
          last' = [op |-> "getitem", rowid |-> rowid, err |-> out.err,
                   item |-> out.val]
    /\ UNCHANGED <<file, cursor, objs, table, nextid, ntok, steps, indexes, context_count,
                   conn>>

-----------------------------------------------------------------------------
(* Indexes: create_index and drop_index, and insert with the default       *)
(* policy, on a database without a block of the caller.                    *)

\* A key whose canonical path reads as the paths of k and b joined by "="
KeyJoin == PyStr(<<"k", DQ, "=", "$", ".", DQ, "b">>)

IndexArgs == {<<KeyK>>, <<KeyK, KeyB>>, <<KeyB, KeyK>>, <<KeyJoin>>,
              <<PyTuple(<<KeyK>>), PyTuple(<<KeyB>>)>>,
              <<PyDictOf(<<<<KeyK, PyInt(1)>>>>)>>}

IndexDocs == {JObj((KeyK.s :> JInt(1)) @@ (KeyB.s :> JInt(1))),
              JObj((KeyK.s :> JInt(1)) @@ (KeyB.s :> JInt(2))),
              JObj(KeyB.s :> JInt(1))}

InitIndex ==
    /\ objs = <<>>
    /\ table = <<>>
    /\ nextid = 1
    /\ ntok = 0
    /\ steps = 0
    /\ indexes = {}
    /\ context_count = 0
    /\ conn = Autocommit
    /\ cursor = NoCursor
    /\ file = Constructed
    /\ last = [op |-> "init", err |-> ""]

NextIndex ==
    \/ \E doc \in IndexDocs : InsertCall(<<Item(doc, 0)>>, "False")
    \/ \E args \in IndexArgs : \E unique \in BOOLEAN :
          CreateIndexCall(args, unique)
    \/ \E args \in IndexArgs : \E unique \in BOOLEAN :
          DropIndexCall(args, unique)

SpecIndex == InitIndex /\ [][NextIndex]_vars

\* The orders in which the paths of a sequence can be given
C14_Orders(paths) ==
    {q \in [1..Len(paths) -> {paths[k] : k \in 1..Len(paths)}] :
        \A k \in 1..Len(paths) : \E j \in 1..Len(paths) : q[j] = paths[k]}

\* C14: the name that create_index and drop_index derive is the same for
\* every order of the same paths with the same flag, so that drop_index
\* removes the index over its set of paths in whatever order they were given
\* to create_index.
C14_NameIgnoresOrder ==
    (last.op \in {"create_index", "drop_index"} /\ last.call.paths.err = "")
    => /\ \A q \in C14_Orders(last.call.paths.val) :
             index_name(q, last.call.unique)
                = index_name(last.call.paths.val, last.call.unique)
       /\ (last.op = "drop_index" /\ last.err = "")
          => \A ix \in last.before.indexes :
                (/\ ix.paths \in C14_Orders(last.call.paths.val)
                 /\ ix.unique = last.call.unique)
                => ix \notin indexes

\* C15: drop_index removes the index made by create_index from the same
\* sequence of paths with the same flag and no other; create_index adds that
\* index, or leaves the indexes as they are when it is there already or when
\* the call fails; no two indexes have one name.
C15_DropRemovesItsIndexOnly ==
    /\ \A ix \in indexes : \A jx \in indexes : ix.name = jx.name => ix = jx
    /\ (last.op = "drop_index" /\ last.err = "")
       => indexes = {ix \in last.before.indexes :
                        ~(/\ ix.paths = last.call.paths.val
                          /\ ix.unique = last.call.unique)}
    /\ (last.op = "create_index" /\ last.err = "")
       => /\ indexes \ last.before.indexes
                \subseteq {[name |-> index_name(last.call.paths.val,
                                                last.call.unique),
                            paths |-> last.call.paths.val,
                            unique |-> last.call.unique]}
          /\ last.before.indexes \subseteq indexes
          /\ \E ix \in indexes : /\ ix.paths = last.call.paths.val
                                 /\ ix.unique = last.call.unique
    /\ (last.op \in {"create_index", "drop_index"} /\ last.err # "")
       => indexes = last.before.indexes

-----------------------------------------------------------------------------
(* Rows: insert under each policy, update, remove and purge, with a        *)
(* UNIQUE index on k that comes and goes, outside any block of the caller. *)

RowDocs == {JObj(KeyK.s :> JInt(1)),
            JObj((KeyK.s :> JInt(1)) @@ (KeyB.s :> JInt(1))),
            JObj(KeyK.s :> JInt(2))}

\* Items with and without the rowid attribute of an earlier lookup
RowItems == {Item(doc, rowid) : doc \in RowDocs, rowid \in 0..2}

\* The rowid argument of update
RowIds == {PyNone} \cup {PyInt(rowid) : rowid \in 0..2}

RowFilters == {<<<<KeyK, PyInt(1)>>>>, <<<<KeyK, PyInt(2)>>>>}

InitRows ==
    /\ objs = <<>>
    /\ table = <<>>
    /\ nextid = 1
    /\ ntok = 0
    /\ steps = 0
    /\ indexes = {}
    /\ context_count = 0
    /\ conn = Autocommit
    /\ cursor = NoCursor
    /\ file = Constructed
    /\ last = [op |-> "init", err |-> ""]

NextRows ==
    \/ \E item \in RowItems : \E duplicates \in Duplicates :
          InsertCall(<<item>>, duplicates)
    \/ \E item \in RowItems : \E rowid \in RowIds :
          \E duplicates \in {"False", "True", "ignore"} :
             UpdateCall(item, rowid, duplicates)
    \/ \E kwargs \in RowFilters : RemoveCall(kwargs)
    \/ PurgeCall
    \/ CreateIndexCall(<<KeyK>>, TRUE)
    \/ DropIndexCall(<<KeyK>>, TRUE)

SpecRows == InitRows /\ [][NextRows]_vars

-----------------------------------------------------------------------------
(* Lookups by rowid: values of every JSON kind are inserted and removed,   *)
(* and a row is read with db[rowid].                                       *)

GetItemDocs == {JNull, JInt(0), JObj(<<>>), JArr(<<>>),
                JObj(KeyK.s :> JInt(1)), JObj(KeyK.s :> JNull)}

\* The rowid that db[rowid] is given: an int or a tuple
GetItemIds == {PyInt(rowid) : rowid \in 1..MaxRowid}
              \cup {PyTuple(<<PyInt(1), PyInt(2)>>)}

InitGetItem ==
    /\ objs = <<>>
    /\ table = <<>>
    /\ nextid = 1
    /\ ntok = 0
    /\ steps = 0
    /\ indexes = {}
    /\ context_count = 0
    /\ conn = Autocommit
    /\ cursor = NoCursor
    /\ file = Constructed
    /\ last = [op |-> "init", err |-> ""]

NextGetItem ==
    \/ \E doc \in GetItemDocs : InsertCall(<<Item(doc, 0)>>, "False")
    \/ RemoveCall(<<<<KeyK, PyInt(1)>>>>)
    \/ PurgeCall
    \/ \E rowid \in GetItemIds : GetItemCall(rowid)

SpecGetItem == InitGetItem /\ [][NextGetItem]_vars

-----------------------------------------------------------------------------
(* Patches: documents are inserted and patched, with and without a filter, *)
(* with a UNIQUE index on k that comes and goes.                           *)

PatchDocs == {JObj(KeyK.s :> JInt(1)),
              JObj((KeyK.s :> JInt(2)) @@ (KeyB.s :> JInt(1))),
              JObj(KeyB.s :> JObj(KeyK.s :> JInt(1)))}

PatchItems == {JObj(KeyB.s :> JInt(2)),
               JObj(KeyK.s :> JNull),
               JObj(KeyK.s :> JInt(2)),
               JObj(KeyB.s :> JObj(KeyK.s :> JNull)),
               JObj((KeyK.s :> JInt(1)) @@ (KeyB.s :> JNull))}

PatchFilters == {<<>>, <<<<KeyK, PyInt(1)>>>>, <<<<KeyK, PyInt(2)>>>>}

InitPatch ==
    /\ objs = <<>>
    /\ table = <<>>
    /\ nextid = 1
    /\ ntok = 0
    /\ steps = 0
    /\ indexes = {}
    /\ context_count = 0
    /\ conn = Autocommit
    /\ cursor = NoCursor
    /\ file = Constructed
    /\ last = [op |-> "init", err |-> ""]

NextPatch ==
    \/ \E doc \in PatchDocs : InsertCall(<<Item(doc, 0)>>, "False")
    \/ \E patchitem \in PatchItems : \E kwargs \in PatchFilters :
          PatchCall(patchitem, kwargs)
    \/ CreateIndexCall(<<KeyK>>, TRUE)
    \/ DropIndexCall(<<KeyK>>, TRUE)

SpecPatch == InitPatch /\ [][NextPatch]_vars

-----------------------------------------------------------------------------
(* Construction: a JSONLiteDB is made, again and again, on a file that is  *)
(* new, or holds the tables of an earlier construction, or a table of the  *)
(* metadata's name that something else made.                               *)

\* The times of a construction
Times == {"t0", "t1"}

\* The rows of a table of the metadata that a construction finds
KvRows == {<<>>,
           <<<<"created", "t0">>>>,
           <<<<"version", "JSONLiteDB-0.1.8">>>>,
           <<<<"created", "t0">>, <<"version", "JSONLiteDB-0.1.8">>>>}

Files == {File(it, kv, wal, FALSE) :
             it \in BOOLEAN,
             kv \in {Absent} \cup {Kv(keyed, rows) : keyed \in BOOLEAN,
                                                     rows \in KvRows},
             wal \in BOOLEAN}

InitConstruct ==
    /\ objs = <<>>
    /\ table = <<>>
    /\ nextid = 1
    /\ ntok = 0
    /\ steps = 0
    /\ indexes = {}
    /\ context_count = 0
    /\ conn = Autocommit
    /\ cursor = NoCursor
    /\ file \in Files
    /\ last = [op |-> "init", err |-> ""]

NextConstruct ==
    \/ \E wal_mode \in BOOLEAN : \E now \in Times : Construct(wal_mode, now)
    \/ \E held \in BOOLEAN : Lock(held)

SpecConstruct == InitConstruct /\ [][NextConstruct]_vars

-----------------------------------------------------------------------------
(* Results: rows are inserted, a query is made, with or without _limit,    *)
(* and its QueryResult is read by any order of its methods.                *)

ResultDocs == {JObj(KeyK.s :> JInt(1)), JObj(KeyK.s :> JInt(2)), JNull}

ResultFilters == {<<>>, <<<<KeyK, PyInt(1)>>>>, <<<<KeyK, PyInt(2)>>>>}

\* The values of _limit and of size
ResultSizes == {PyNone} \cup {PyInt(size) : size \in 0..(MaxRows + 1)}

InitResult ==
    /\ objs = <<>>
    /\ table = <<>>
    /\ nextid = 1
    /\ ntok = 0
    /\ steps = 0
    /\ indexes = {}
    /\ context_count = 0
    /\ conn = Autocommit
    /\ cursor = NoCursor
    /\ file = Constructed
    /\ last = [op |-> "init", err |-> ""]

NextResult ==
    \/ \E doc \in ResultDocs :
          ~cursor.open /\ InsertCall(<<Item(doc, 0)>>, "False")
    \/ \E kwargs \in ResultFilters : \E _limit \in ResultSizes :
          QueryOpen(kwargs, _limit)
    \/ \E kwargs \in ResultFilters : QueryOne(kwargs)
    \/ ResultNext
    \/ FetchOne
    \/ \E size \in ResultSizes : FetchMany(size)
    \/ FetchAll

SpecResult == InitResult /\ [][NextResult]_vars

-----------------------------------------------------------------------------
(* Blocks: the caller's with blocks, nested up to MaxDepth, around calls   *)
(* that change the database.                                               *)

ScopeDocs == {JObj(KeyK.s :> JInt(1)), JObj(KeyK.s :> JInt(2))}

InitScope ==
    /\ objs = <<>>
    /\ table = <<>>
    /\ nextid = 1
    /\ ntok = 0
    /\ steps = 0
    /\ indexes = {}
    /\ context_count = 0
    /\ conn = Autocommit
    /\ cursor = NoCursor
    /\ file = Constructed
    /\ last = [op |-> "init", err |-> ""]

NextScope ==
    \/ Enter
    \/ \E exc \in BOOLEAN : Exit(exc)
    \/ \E doc \in ScopeDocs : InsertCall(<<Item(doc, 0)>>, "False")
    \/ \E doc \in ScopeDocs : UpdateCall(Item(doc, 0), PyInt(1), "False")
    \/ RemoveCall(<<<<KeyK, PyInt(1)>>>>)
    \/ CreateIndexCall(<<KeyK>>, TRUE)
    \/ DropIndexCall(<<KeyK>>, TRUE)

SpecScope == InitScope /\ [][NextScope]_vars

-----------------------------------------------------------------------------
(* Batches: inserts of one or two documents under the default policy, on  *)
(* a table that may have a unique index on k, in and out of the caller's   *)
(* blocks.                                                                 *)

Batches == {<<Item(doc, 0)>> : doc \in ScopeDocs}
           \cup {<<Item(d1, 0), Item(d2, 0)>> : d1 \in ScopeDocs, d2 \in ScopeDocs}

NextBatch ==
    \/ Enter
    \/ \E exc \in BOOLEAN : Exit(exc)
    \/ \E ins \in Batches : InsertCall(ins, "False")
    \/ CreateIndexCall(<<KeyK>>, TRUE)

SpecBatch == InitScope /\ [][NextBatch]_vars

-----------------------------------------------------------------------------
(* Path normalisation on its own: a key, whole or a tuple of up to        *)
(* MaxPathLen segments, some of them neither a string nor an integer, is   *)
(* normalised as the key of a query dict or as the path of an index.       *)

NormSegs == {PyStr(<<"a">>), PyInt(0), PyNone, PyTuple(<<>>),
             PyTuple(<<PyStr(<<"b">>)>>)}

NormKeys == NormSegs
            \cup {PyTuple(p) : p \in UNION {[1..n -> NormSegs] : n \in 0..MaxPathLen}}

InitNormalize ==
    /\ objs = <<>>
    /\ table = <<>>
    /\ nextid = 1
    /\ ntok = 0
    /\ steps = 0
    /\ indexes = {}
    /\ context_count = 0
    /\ conn = Autocommit
    /\ cursor = NoCursor
    /\ file = Constructed
    /\ \E key \in NormKeys : last = [op |-> "key", key |-> key]

\* _query_tuple2jsonpath({key: 1})
QueryKeyPath ==
    /\ last.op = "key"
    /\ \E out \in {query_tuple2jsonpath(
                       <<PyDictOf(<<<<last.key, PyInt(1)>>>>)>>, <<>>)} :
          last' = [op |-> "query_tuple2jsonpath", key |-> last.key,
                   err |-> out.err,
                   paths |-> IF out.err = "" THEN out.val ELSE <<>>]
    /\ UNCHANGED <<file, cursor, indexes, context_count, conn, objs, table, nextid, ntok, steps>>

\* build_index_paths(key)
IndexKeyPath ==
    /\ last.op = "key"
    /\ \E out \in {build_index_paths(objs, last.key)} :
          last' = [op |-> "build_index_paths", key |-> last.key,
                   err |-> out.err,
                   paths |-> IF out.err = "" THEN <<<<out.val, PyNone>>>>
                             ELSE <<>>]
    /\ UNCHANGED <<file, cursor, indexes, context_count, conn, objs, table, nextid, ntok, steps>>

NextNormalize == QueryKeyPath \/ IndexKeyPath

SpecNormalize == InitNormalize /\ [][NextNormalize]_vars

\* C12: normalising a key that is neither a string, an integer nor a tuple,
\* or a tuple with an element that is neither a string nor an integer, ends
\* with ValueError and gives no canonical path.
C12_BadSegmentRaises ==
    (/\ last.op \in {"query_tuple2jsonpath", "build_index_paths"}
     /\ \/ last.key.t \notin {"str", "int", "tuple"}
        \/ \E k \in 1..Len(last.key.segs) :
              last.key.segs[k].t \notin {"str", "int"})
    => last.err = "ValueError" /\ last.paths = <<>>

-----------------------------------------------------------------------------
(* ORDER BY: build_orderby_pairs on a spec or a list of specs. The Query   *)
(* objects among the specs are on the heap objs, where -q and +q leave     *)
(* their hint before the call.                                             *)

PyList(segs) == [t |-> "list", s |-> <<>>, i |-> 0, segs |-> segs]

\* Query.__neg__
neg(self) == [self EXCEPT !.asc_or_desc = "DESC"]

\* Query.__pos__
pos(self) == [self EXCEPT !.asc_or_desc = "ASC"]

\* The end of the str branch: a bare key is quoted
OrderStr(item, order) ==
    Ok(<<IF StartsWith(item, <<"$">>) THEN item
         ELSE <<"$", ".", DQ>> \o item \o <<DQ>>, order>>)

\* The str branch of build_orderby_pairs (type 1 or 2)
OrderOfStr(item, order) ==
    IF StartsWith(item, <<"-">>) THEN OrderStr(Tail(item), "DESC")
    ELSE IF StartsWith(item, <<"+">>) THEN OrderStr(Tail(item), order)
    ELSE OrderStr(item, order)

\* The tuple branch of build_orderby_pairs (type 3)
OrderOfTuple(item, order) ==
    IF item = <<>> THEN Raise("ValueError")
    ELSE IF Head(item).t = "str" /\ StartsWith(Head(item).s, <<"-">>)
         THEN Ok(<<TuplePath(<<PyStr(Tail(Head(item).s))>> \o Tail(item)),
                   "DESC">>)
    ELSE IF Head(item).t = "str" /\ StartsWith(Head(item).s, <<"+">>)
         THEN Ok(<<TuplePath(<<PyStr(Tail(Head(item).s))>> \o Tail(item)),
                   order>>)
    ELSE Ok(<<TuplePath(item), order>>)

\* One item of the loop once a Query object has become its tuple
OrderOf(item, order) ==
    IF item.t = "str" THEN OrderOfStr(item.s, order)
    ELSE IF item.t = "tuple" THEN OrderOfTuple(item.segs, order)
    ELSE Raise("ValueError")

\* The Query branch (type 4) for the object q
OrderOfQuery(q) ==
    IF q.query # None THEN Raise("AssignedQueryError")
    ELSE OrderOf(q.key, IF q.asc_or_desc # "" THEN q.asc_or_desc ELSE "ASC")

\* One item of the loop of build_orderby_pairs, with the heap h
OrderItem(h, item) ==
    IF item.t = "query" THEN OrderOfQuery(h[item.i]) ELSE OrderOf(item, "ASC")

RECURSIVE OrderPairs(_, _, _)

OrderAppend(h, specs, orders, pair) ==
    IF pair.err # "" THEN pair
    ELSE OrderPairs(h, Tail(specs), Append(orders, pair.val))

\* The loop of build_orderby_pairs
OrderPairs(h, specs, orders) ==
    IF specs = <<>> THEN Ok(orders)
    ELSE OrderAppend(h, specs, orders, OrderItem(h, Head(specs)))

\* build_orderby_pairs(orderby) with the heap h; the "" that it returns for
\* an orderby that is not true is the empty sequence here
build_orderby_pairs(h, orderby) ==
    IF orderby.t # "query" /\ Falsy(orderby) THEN Ok(<<>>)
    ELSE OrderPairs(h, IF orderby.t = "list" THEN orderby.segs ELSE <<orderby>>,
                    <<>>)

\* The Query objects of the caller: Q.k, Q["-k"], Q[-4] and the set Q.k == 1
OrderObjs ==
    <<getitem(QueryInit, KeyK).val,
      getitem(QueryInit, PyStr(<<"-", "k">>)).val,
      getitem(QueryInit, PyInt(-4)).val,
      compare(getitem(QueryInit, KeyK).val, PyInt(1), "=", 1).val.obj>>

OrderSpecs ==
    {PyStr(<<"k">>), PyStr(<<"-", "k">>), PyStr(<<"+", "k">>),
     PyStr(<<"-", "$", ".", "k">>),
     PyTuple(<<PyStr(<<"-", "k">>), PyInt(0)>>),
     PyTuple(<<PyStr(<<"+", "k">>)>>),
     PyTuple(<<PyInt(-4)>>),
     PyTuple(<<PyInt(0), PyStr(<<"-", "k">>)>>),
     PyTuple(<<>>), PyNone, PyInt(0)}
    \cup {PyQuery(i) : i \in 1..Len(OrderObjs)}

OrderBys == OrderSpecs \cup {PyList(<<>>)}
            \cup {PyList(<<a, b>>) :
                     a \in OrderSpecs,
                     b \in {PyStr(<<"-", "k">>), PyTuple(<<PyInt(-4)>>),
                            PyQuery(1), PyQuery(2)}}

InitOrder ==
    /\ objs = OrderObjs
    /\ table = <<>>
    /\ nextid = 1
    /\ ntok = 1
    /\ steps = 0
    /\ indexes = {}
    /\ context_count = 0
    /\ conn = Autocommit
    /\ cursor = NoCursor
    /\ file = Constructed
    /\ last = [op |-> "init", err |-> ""]

\* -objs[i]
Neg(i) ==
    /\ objs' = [objs EXCEPT ![i] = neg(objs[i])]
    /\ last' = [op |-> "neg", err |-> ""]
    /\ UNCHANGED <<file, cursor, indexes, context_count, conn, table, nextid, ntok, steps>>

\* +objs[i]
Pos(i) ==
    /\ objs' = [objs EXCEPT ![i] = pos(objs[i])]
    /\ last' = [op |-> "pos", err |-> ""]
    /\ UNCHANGED <<file, cursor, indexes, context_count, conn, table, nextid, ntok, steps>>

\* build_orderby_pairs(orderby)
OrderBy(orderby) ==
    /\ \E out \in {build_orderby_pairs(objs, orderby)} :
          last' = [op |-> "build_orderby_pairs", orderby |-> orderby,
                   err |-> out.err,
                   pairs |-> IF out.err = "" THEN out.val ELSE <<>>]
    /\ UNCHANGED <<file, cursor, indexes, context_count, conn, objs, table, nextid, ntok, steps>>

NextOrder ==
    \/ \E i \in 1..Len(OrderObjs) : Neg(i)
    \/ \E i \in 1..Len(OrderObjs) : Pos(i)
    \/ \E orderby \in OrderBys : OrderBy(orderby)

SpecOrder == InitOrder /\ [][NextOrder]_vars

\* An order spec that names a path: a non-empty string, a non-empty tuple of
\* strings and integers, or an unset Query object with a key
C13_Names(h, spec) ==
    \/ spec.t = "str" /\ spec.s # <<>>
    \/ /\ spec.t = "tuple"
       /\ spec.segs # <<>>
       /\ \A k \in 1..Len(spec.segs) : spec.segs[k].t \in {"str", "int"}
    \/ /\ spec.t = "query"
       /\ h[spec.i].query = None
       /\ h[spec.i].key.segs # <<>>

\* The text of a string without its sign
C13_Unsigned(text) ==
    IF StartsWith(text, <<"-">>) \/ StartsWith(text, <<"+">>) THEN Tail(text)
    ELSE text

\* The canonical path that an order spec names
C13_Path(h, spec) ==
    IF spec.t = "str"
    THEN (IF StartsWith(C13_Unsigned(spec.s), <<"$">>) THEN C13_Unsigned(spec.s)
          ELSE <<"$", ".", DQ>> \o C13_Unsigned(spec.s) \o <<DQ>>)
    ELSE IF spec.t = "query" THEN TuplePath(h[spec.i].key.segs)
    ELSE IF Head(spec.segs).t = "str"
         THEN TuplePath(<<PyStr(C13_Unsigned(Head(spec.segs).s))>>
                        \o Tail(spec.segs))
    ELSE TuplePath(spec.segs)

\* The direction that an order spec asks for
C13_Direction(h, spec) ==
    IF \/ spec.t = "str" /\ StartsWith(spec.s, <<"-">>)
       \/ /\ spec.t = "tuple"
          /\ Head(spec.segs).t = "str"
          /\ StartsWith(Head(spec.segs).s, <<"-">>)
       \/ spec.t = "query" /\ h[spec.i].asc_or_desc = "DESC"
    THEN "DESC" ELSE "ASC"

\* C13: build_orderby_pairs gives one (canonical path, direction) pair for
\* each order spec, in the order of the call; the direction is DESC exactly
\* for a string or a tuple whose first string begins with "-" and for a Query
\* object with the descending hint, whatever the key of the object is.
C13_OnePairPerSpec ==
    last.op = "build_orderby_pairs"
    => \A specs \in {IF last.orderby.t = "list" THEN last.orderby.segs
                     ELSE <<last.orderby>>} :
          (\A k \in 1..Len(specs) : C13_Names(objs, specs[k]))
          => /\ last.err = ""
             /\ Len(last.pairs) = Len(specs)
             /\ \A k \in 1..Len(specs) :
                   /\ last.pairs[k][1] = C13_Path(objs, specs[k])
                   /\ last.pairs[k][2] = C13_Direction(objs, specs[k])

-----------------------------------------------------------------------------
(* Compiling: the caller builds the arguments of one query, dicts and      *)
(* predicate expressions in any position, some of them the same object     *)
(* twice, and reads the rows; a later query then takes one of the caller's *)
(* objects alone. objs holds the caller's Query objects.                   *)

\* A key with a question mark in it
KeyQ == PyStr(<<"k", "?">>)

\* A key that ends like the opening of a bind token
KeyOpen == PyStr(<<"k", "!>>">>)

\* A key that starts like the closing of a bind token
KeyClose == PyStr(<<"<<!", "k">>)

CompileDocs == {JObj(KeyK.s :> JInt(1) @@ KeyB.s :> JInt(1)),
                JObj(KeyK.s :> JInt(1) @@ KeyB.s :> JInt(2)),
                JObj(KeyK.s :> JInt(2) @@ KeyB.s :> JInt(2))}

\* Predicate expressions: A, B and the forms around them
CompilePreds == {Cmp(<<KeyK>>, "=", PyInt(1)), Cmp(<<KeyB>>, ">", PyInt(1)),
                 Cmp(<<KeyB>>, "!=", PyNone), Not(Cmp(<<KeyK>>, "=", PyInt(2))),
                 Cmp(<<KeyQ>>, "=", PyInt(1)), Bare(<<KeyK>>)}

CompileDicts == {Arg(PyDictOf(<<<<KeyK, PyInt(1)>>>>)),
                 Arg(PyDictOf(<<<<KeyB, PyInt(2)>>, <<KeyK, PyInt(1)>>>>)),
                 Arg(PyDictOf(<<<<KeyOpen, PyInt(1)>>>>)),
                 Arg(PyDictOf(<<<<KeyClose, PyInt(1)>>>>)),
                 Arg(PyDictOf(<<<<KeyBoom, PyInt(1)>>>>)),
                 Arg(KeyB)}

CompileArgs == CompilePreds \cup CompileDicts

\* The caller's first Query object once more
Same == Arg(PyQuery(1))

CompileForms ==
    {<<>>}
    \cup {<<a>> : a \in CompileArgs}
    \cup {<<a, b>> : a \in CompileArgs, b \in CompileArgs}
    \cup {<<a, b, Same>> : a \in CompilePreds, b \in CompileArgs \cup {Same}}
    \cup {<<a, Same>> : a \in CompilePreds}
    \cup {<<d, a, Same>> : d \in CompileDicts, a \in CompilePreds}
    \cup {<<And(a, Same)>> : a \in CompilePreds}
    \cup {<<a, d, b>> : a \in CompilePreds, d \in CompileDicts,
                        b \in {Cmp(<<KeyB>>, ">", PyInt(1))}}

CompileKwargs == {<<>>, <<<<KeyB, PyInt(2)>>>>,
                  <<<<KeyB, PyInt(1)>>, <<KeyK, PyInt(1)>>>>}

\* The local qobj of _query2sql when its loops have ended with c
FinalQobj(c) == IF c.err # "" \/ ~c.some THEN QueryInit ELSE Qobj(c)

\* The local qobj of _query2sql before its last lines
LoopsQobj(h, n, qargs, equalities) ==
    IF equalities.err # "" THEN QueryInit
    ELSE FinalQobj(AndArgs(AndEqualities(NoQobj(h, n), equalities.val), qargs))

query2sql_qobj(h, n, query_args, query_kwargs) ==
    LoopsQobj(h, n, SelectSeq(query_args, LAMBDA arg : arg.t = "query"),
              query_tuple2jsonpath(
                  SelectSeq(query_args, LAMBDA arg : arg.t # "query"),
                  query_kwargs))

\* list(db.query(*es, **kwargs)) with b the value of the arguments, c what
\* _query2sql gives for them and qobj its local when it binds
Queried(es, kwargs, b, c, qobj) ==
    /\ objs' = c.h
    /\ ntok' = c.n
    /\ \E res \in {Execute(c, table)} :
          last' = [op |-> "query", args |-> es, kwargs |-> kwargs,
                   before |-> b.h, built |-> b.arg, compiled |-> c.err,
                   qstr |-> c.qstr, qvals |-> c.qvals, text |-> qobj.query,
                   qdict |-> qobj.qdict, err |-> res.err, rows |-> res.rows]

\* list(db.query(*es, **kwargs)): the caller builds the arguments, then calls
QueryArgs(es, kwargs) ==
    /\ last.op = "init"
    /\ \E b \in {BuildAll(es, <<>>, 0, <<>>)} :
          /\ b.err = ""
          /\ Queried(es, kwargs, b, query2sql(b.h, b.n, b.arg, kwargs),
                     query2sql_qobj(b.h, b.n, b.arg, kwargs))
    /\ UNCHANGED <<file, cursor, indexes, context_count, conn, table, nextid, steps>>

\* list(db.query(q)) for q the caller's object objs[k], after the first query
QueryLater(k) ==
    /\ last.op = "query"
    /\ k \in DOMAIN objs
    /\ \E res \in {query(objs, ntok, <<PyQuery(k)>>, <<>>, table)} :
          /\ objs' = res.h
          /\ ntok' = res.n
          /\ last' = [op |-> "later", k |-> k, first |-> last,
                      err |-> res.err, rows |-> res.rows]
    /\ UNCHANGED <<file, cursor, indexes, context_count, conn, table, nextid, steps>>

CompileTables ==
    {<<>>} \cup {<<[rowid |-> 1, data |-> doc]>> : doc \in CompileDocs}
    \cup {<<[rowid |-> 1, data |-> d1], [rowid |-> 2, data |-> d2]>> :
             d1 \in CompileDocs, d2 \in CompileDocs}

InitCompile ==
    /\ objs = <<>>
    /\ table \in CompileTables
    /\ nextid = Len(table) + 1
    /\ ntok = 0
    /\ steps = 0
    /\ indexes = {}
    /\ context_count = 0
    /\ conn = Autocommit
    /\ cursor = NoCursor
    /\ file = Constructed
    /\ last = [op |-> "init", err |-> ""]

NextCompile ==
    \/ \E es \in CompileForms, kwargs \in CompileKwargs : QueryArgs(es, kwargs)
    \/ \E k \in 1..MaxObjs + 1 : QueryLater(k)

SpecCompile == InitCompile /\ [][NextCompile]_vars

-----------------------------------------------------------------------------
(* Properties of the store *)

\* C2: a query for equality on a key whose text has the shape of a bind token
\* compiles without error and selects exactly the documents whose value at
\* that key equals the given value.
C2_TokenTextInKey ==
    (/\ last.op = "query"
     /\ last.kwargs = <<>>
     /\ Len(last.args) = 1
     /\ \/ last.args[1].k = "cmp" /\ last.args[1].path = <<KeyBoom>>
           /\ last.args[1].sym = "=" /\ last.args[1].val = PyInt(1)
        \/ last.args[1].k = "arg" /\ last.args[1].val.t = "dict"
           /\ last.args[1].val.segs = <<<<KeyBoom, PyInt(1)>>>>)
    => /\ last.err = ""
       /\ last.rows = SelectSeq(table, LAMBDA row :
              /\ row.data.t = "obj"
              /\ KeyBoom.s \in DOMAIN row.data.m
              /\ row.data.m[KeyBoom.s].t = "int"
              /\ row.data.m[KeyBoom.s].n = 1)

\* C3: a query given two set predicates A and B as separate arguments has the
\* same outcome, and selects the same rows, as a query given A & B.
C3_SeparateEqualsComposed ==
    (/\ last.op = "query"
     /\ last.kwargs = <<>>
     /\ Len(last.args) = 2
     /\ last.args[1] \in Preds
     /\ last.args[2] \in Preds)
    => \A one \in {Run(<<And(last.args[1], last.args[2])>>, <<>>, table)} :
          last.err = one.err /\ last.rows = one.rows

\* A query of two different predicates that selects a row and leaves a row
C3_Witness ==
    /\ last.op = "query"
    /\ last.kwargs = <<>>
    /\ Len(last.args) = 2
    /\ last.args[1] \in Preds
    /\ last.args[2] \in Preds
    /\ last.args[1] # last.args[2]
    /\ last.err = ""
    /\ Len(last.rows) = 1
    /\ Len(table) = 2

\* C4: without arguments the filter is "1 = 1" with no values to bind, so in
\* every state of the store query() yields the rows items() yields and
\* count() is len(db).
C4_NoArgsSelectsAll ==
    /\ \A c \in {query2sql(<<>>, 0, <<>>, <<>>)} :
          c.err = "" /\ c.qstr = <<"1", "=", "1">> /\ c.qvals = <<>>
    /\ \A res \in {Run(<<>>, <<>>, table)} :
          res.err = "" /\ res.rows = items(table)
    /\ count(<<>>, 0, <<>>, <<>>, table) = [err |-> "", n |-> len(table)]
    /\ (last.op = "query" /\ last.args = <<>> /\ last.kwargs = <<>>)
       => (last.err = "" /\ last.rows = items(table))
    /\ (last.op = "count" /\ last.args = <<>> /\ last.kwargs = <<>>)
       => (last.err = "" /\ last.n = len(table))

\* query() on a table of two rows or more
C4_Witness ==
    /\ last.op = "query"
    /\ last.args = <<>>
    /\ last.kwargs = <<>>
    /\ Len(last.rows) >= 2
    /\ last.rows = table

\* C5: an equality whose value is None, given as a dict entry or as a
\* keyword, compiles to the IS NULL form with nothing to bind and selects the
\* rows that Q.key == None selects.
C5_NoneShorthandIsNullAware ==
    (/\ last.op = "query"
     /\ \/ /\ last.kwargs = <<>>
           /\ Len(last.args) = 1
           /\ last.args[1].k = "arg"
           /\ last.args[1].val.t = "dict"
           /\ last.args[1].val.segs = <<<<KeyK, PyNone>>>>
        \/ /\ last.args = <<>>
           /\ last.kwargs = <<<<KeyK, PyNone>>>>)
    => /\ \A c \in {query2sql(<<>>, 0, <<>>, <<<<KeyK, PyNone>>>>)} :
             /\ c.err = ""
             /\ c.qvals = <<>>
             /\ \E k \in 1..Len(c.qstr) - 1 :
                   c.qstr[k] = "IS" /\ c.qstr[k + 1] = "NULL"
       /\ \A q \in {Run(<<Cmp(<<KeyK>>, "=", PyNone)>>, <<>>, table)} :
             last.err = q.err /\ last.rows = q.rows

\* C6 as stated: path == None selects a document only when the key is there
\* and holds JSON null.
C6_NullEqualityOnlyPresentNull ==
    (/\ last.op = "query"
     /\ last.kwargs = <<>>
     /\ Len(last.args) = 1
     /\ last.args[1].k = "cmp"
     /\ last.args[1].sym = "="
     /\ last.args[1].val = PyNone)
    => \A i \in 1..Len(last.rows) :
          \A r \in {PathLookup(last.rows[i].data, TuplePath(last.args[1].path))} :
             r.st = "found" /\ r.v.t = "null"

\* C6: path == None selects exactly the documents in which the path holds
\* JSON null or is missing.
C6_NullEqualitySelectsNullOrMissing ==
    (/\ last.op = "query"
     /\ last.kwargs = <<>>
     /\ Len(last.args) = 1
     /\ last.args[1].k = "cmp"
     /\ last.args[1].sym = "="
     /\ last.args[1].val = PyNone)
    => /\ last.err = ""
       /\ last.rows = SelectSeq(table, LAMBDA row :
              \E r \in {PathLookup(row.data, TuplePath(last.args[1].path))} :
                 r.st = "missing" \/ (r.st = "found" /\ r.v.t = "null"))

\* Q.k == None selects a row where k is null and a row where k is missing
C6_Witness ==
    /\ last.op = "query"
    /\ last.kwargs = <<>>
    /\ last.args = <<Cmp(<<KeyK>>, "=", PyNone)>>
    /\ last.err = ""
    /\ \E i \in 1..Len(last.rows) :
          PathLookup(last.rows[i].data, TuplePath(<<KeyK>>)).st = "missing"
    /\ \E i \in 1..Len(last.rows) :
          \E r \in {PathLookup(last.rows[i].data, TuplePath(<<KeyK>>))} :
             r.st = "found" /\ r.v.t = "null"

\* C7: query_by_path_exists(path) yields, once each, the documents in which
\* the path is present, those where it holds JSON null too, and no other; for
\* an empty path it yields nothing.
C7_PathExistsYieldsPresent ==
    last.op = "query_by_path_exists"
    => /\ last.err = ""
       /\ IF last.path \in {PyNone, PyTuple(<<>>), PyStr(<<>>)}
          THEN last.rows = <<>>
          ELSE last.rows = SelectSeq(table, LAMBDA row :
                   PathLookup(row.data,
                        build_index_paths(<<>>, last.path).val).st = "found")

\* C11: a query whose only argument is an unset Query object (Q.key) or a
\* bare path scalar ('key') ends with MissingValueError and yields no row.
C11_NoComparisonRaises ==
    (/\ last.op = "query"
     /\ last.kwargs = <<>>
     /\ Len(last.args) = 1
     /\ \/ last.args[1].k = "bare"
        \/ last.args[1].k = "arg" /\ last.args[1].val.t # "dict")
    => /\ last.err = "MissingValueError"
       /\ last.rows = <<>>

-----------------------------------------------------------------------------
(* Properties of the calls that change the database *)

InsertClashed ==
    /\ last.op = "insert"
    /\ Len(last.call.ins) = 1
    /\ Clashing(last.before, dumps(last.call.ins[1]), 0) # {}

\* C17: when the inserted document conflicts with a row under a unique
\* index, the default policy raises IntegrityError and 'ignore' raises
\* nothing, and either way the rows (ids, contents, count) are as before.
C17_RejectAndIgnoreKeepRows ==
    InsertClashed =>
        /\ last.call.duplicates = "False" =>
              last.err = "IntegrityError" /\ table = last.before.table
        /\ last.call.duplicates = "ignore" =>
              last.err = "" /\ table = last.before.table

\* A conflicting insert that 'ignore' let pass
C17_Witness ==
    /\ InsertClashed
    /\ last.call.duplicates = "ignore"
    /\ last.err = ""
    /\ table # <<>>

\* The rows of a table other than those at the places gone
C18_Kept(rows, gone) == Rows(Without(rows, gone))

\* C18: with duplicates True or 'replace', an insert whose document
\* conflicts with exactly one row under a unique index leaves the number of
\* rows as it was, and then the conflicting row is gone, the new document is
\* stored and the other rows are as they were.
C18_ReplaceKeepsCount ==
    (/\ InsertClashed
     /\ last.call.duplicates \in {"True", "replace"}
     /\ Cardinality(Clashing(last.before, dumps(last.call.ins[1]), 0)) = 1) =>
        /\ last.err = ""
        /\ Len(table) = Len(last.before.table)
        /\ \A gone \in {Clashing(last.before, dumps(last.call.ins[1]), 0)} :
              /\ SubSeq(table, 1, Len(table) - 1)
                    = C18_Kept(last.before.table, gone)
              /\ \A k \in gone : \A j \in 1..Len(table) :
                    table[j].rowid # last.before.table[k].rowid
        /\ table[Len(table)].data = dumps(last.call.ins[1])

\* A replacing insert that took the place of one of two rows with another
\* document
C18_Witness ==
    /\ InsertClashed
    /\ last.call.duplicates \in {"True", "replace"}
    /\ last.err = ""
    /\ Len(table) = 2
    /\ \A k \in 1..Len(last.before.table) :
          last.before.table[k].data # dumps(last.call.ins[1])

\* The rowid that an update is addressed to: the rowid argument when there
\* is one, the rowid attribute of the item without it
C19_Addressed(call) ==
    IF call.rowid # PyNone THEN call.rowid.i ELSE call.item.rowid

\* What an update addressed to the rowid leaves, seen from the table before
C19_Replaced(call, before, rowid) ==
    IF \E k \in 1..Len(before.table) : before.table[k].rowid = rowid
    THEN /\ get_by_rowid(Now, rowid) = Item(dumps(call.item), rowid)
         /\ Len(table) = Len(before.table)
         /\ \A k \in 1..Len(table) :
               /\ table[k].rowid = before.table[k].rowid
               /\ table[k].rowid # rowid => table[k] = before.table[k]
    ELSE table = before.table

\* C19: update(item) with the default duplicates replaces the content of
\* the row it is addressed to, by the rowid argument or else the rowid
\* attribute of the item: the row then holds the document, the rowids and
\* the number of rows are as before, each other row is as before, and an
\* update addressed to a rowid that no row has changes nothing.
C19_UpdateReplacesItsRow ==
    (/\ last.op = "update"
     /\ last.call.duplicates = "False"
     /\ last.err = "") =>
        C19_Replaced(last.call, last.before, C19_Addressed(last.call))

\* Whether one of the rows has the rowid
C20_Has(rows, rowid) == \E k \in 1..Len(rows) : rows[k].rowid = rowid

C21_IndexErrorIffNoRow ==
    (last.op = "getitem" /\ last.rowid.t = "int") =>
        (last.err = "IndexError" <=> ~C20_Has(table, last.rowid.i))

\* The items of the rows of the cursor from the one after place from up to
\* the one at place to, in the order of the cursor
C22_Items(c, from, to) ==
    [k \in 1..(to - from) |->
        Loaded(c.selected[from + k].data, c.selected[from + k].rowid)]

\* What a method of a QueryResult delivered
C22_Delivered ==
    IF last.op \in {"fetchmany", "fetchall"} THEN last.list
    ELSE IF last.op = "next" /\ last.err = "StopIteration" THEN <<>>
    ELSE IF last.op = "fetchone" /\ cursor.at = last.before.at THEN <<>>
    ELSE <<last.item>>

\* C22: a QueryResult is read once, in order: each call of next, fetchone,
\* fetchmany and fetchall delivers the rows that follow those delivered
\* before, the cursor never goes back, and once the rows have all been
\* given fetchone returns None, fetchmany and fetchall return an empty list
\* and next raises StopIteration.
C22_SinglePass ==
    last.op \in {"next", "fetchone", "fetchmany", "fetchall"} =>
        /\ cursor.selected = last.before.selected
        /\ cursor.at >= last.before.at
        /\ cursor.at <= Len(cursor.selected)
        /\ C22_Delivered = C22_Items(cursor, last.before.at, cursor.at)
        /\ last.before.at = Len(last.before.selected) =>
              /\ cursor.at = last.before.at
              /\ last.op = "next" <=> last.err = "StopIteration"
              /\ last.op = "fetchone" => last.item = PyNone
              /\ last.op \in {"fetchmany", "fetchall"} => last.list = <<>>

\* A fetchone on a result of two rows that were all given before
C22_Witness ==
    /\ last.op = "fetchone"
    /\ Len(cursor.selected) = 2
    /\ last.before.at = 2
    /\ last.item = PyNone

\* C23: when about() fails in _init with an OperationalError other than
\* the missing table of the metadata, the construction raises that error
\* and leaves the file as it was.
C23_InitReraises ==
    (/\ last.op = "construct"
     /\ last.about \in {Locked, NoSuchColumn}) =>
        last.err = last.about /\ file = last.before

\* The rows that match the filter of the latest call
C24_Matching == query(<<>>, 0, <<>>, last.kwargs, table).rows

C24_Min(a, b) == IF a < b THEN a ELSE b

\* C24: query(..., _limit=N) gives min(N, number of matching rows) rows
\* for every int N >= 0, and query_one gives the first matching document,
\* or None without an exception when nothing matches.
C24_LimitAndOne ==
    /\ (last.op = "query" /\ last.err = "" /\ last.limit.t = "int") =>
          Len(cursor.selected) = C24_Min(last.limit.i, Len(C24_Matching))
    /\ last.op = "query_one" =>
          /\ last.err = ""
          /\ last.item = IF C24_Matching = <<>> THEN PyNone
                         ELSE Loaded(C24_Matching[1].data,
                                     C24_Matching[1].rowid)

\* The members of a document, none for one that is no object
C25_Members(doc) == IF doc.t = "obj" THEN doc.m ELSE <<>>

\* Whether the members now are the merge of the members old with those of
\* the patch pm: the keys of both without those the patch gives as null, a
\* member the patch does not name as it was, one it gives as a value that
\* is no object as the patch gives it, and one it gives as an object an
\* object without the keys that this gives as null
C25_Merged(old, now, pm) ==
    /\ DOMAIN now = (DOMAIN old \cup DOMAIN pm)
                        \ {key \in DOMAIN pm : pm[key].t = "null"}
    /\ \A key \in DOMAIN now :
          /\ key \notin DOMAIN pm => now[key] = old[key]
          /\ (key \in DOMAIN pm /\ pm[key].t # "obj") => now[key] = pm[key]
          /\ (key \in DOMAIN pm /\ pm[key].t = "obj") =>
                /\ now[key].t = "obj"
                /\ \A sub \in DOMAIN pm[key].m :
                      pm[key].m[sub].t = "null" => sub \notin DOMAIN now[key].m

\* Whether the row is one that the filter of the latest call matches in the
\* table as it was
C25_Matches(row) ==
    \E sel \in {query(<<>>, 0, <<>>, last.call.kwargs, last.before.table)} :
       \E k \in 1..Len(sel.rows) : sel.rows[k].rowid = row.rowid

\* C25: a patch that raises nothing leaves the number of rows and every
\* rowid as they were, makes each row that its filter matches the merge of
\* what the row held with the patch, and leaves every other row as it was;
\* without a filter every row is patched.
C25_PatchOnlyMatching ==
    (last.op = "patch" /\ last.err = "") =>
        /\ Len(table) = Len(last.before.table)
        /\ \A k \in 1..Len(table) :
              /\ table[k].rowid = last.before.table[k].rowid
              /\ IF last.call.kwargs = <<>> \/ C25_Matches(last.before.table[k])
                 THEN /\ table[k].data.t = "obj"
                      /\ C25_Merged(C25_Members(last.before.table[k].data),
                                    table[k].data.m, last.call.patchitem.m)
                 ELSE table[k] = last.before.table[k]

\* A patch that changed one of two rows and left the other
C25_Witness ==
    /\ last.op = "patch"
    /\ last.err = ""
    /\ Len(table) = 2
    /\ table[1] # last.before.table[1]
    /\ table[2] = last.before.table[2]
    /\ ~C25_Matches(last.before.table[2])

-----------------------------------------------------------------------------
(* Properties of compiling *)

\* The places of an SQL text that hold the symbol sym outside its string
\* literals
C26_Bare(t, sym) ==
    {k \in 1..Len(t) :
        /\ t[k] = sym
        /\ Cardinality({i \in 1..k : t[i] = "'"}) % 2 = 0}

\* The j-th of a set of places
C26_Nth(places, j) ==
    CHOOSE k \in places : Cardinality({i \in places : i <= k}) = j

\* The bind tokens of a text, left to right
C26_Tokens(t) ==
    [j \in 1..Cardinality(C26_Bare(t, "!>>")) |->
        SubSeq(t, C26_Nth(C26_Bare(t, "!>>"), j),
               2 + C26_Nth(C26_Bare(t, "!>>"), j))]

\* C26: when _query2sql returns, its text has as many bind placeholders as
\* its value list has entries, and the k-th value is the one bound to the
\* k-th token of the predicate's text, also for a token that occurs twice.
C26_PlaceholdersMatchValues ==
    (last.op = "query" /\ last.compiled = "") =>
        \A toks \in {C26_Tokens(last.text)} :
            /\ Cardinality(C26_Bare(last.qstr, "?")) = Len(last.qvals)
            /\ Len(toks) = Len(last.qvals)
            /\ \A k \in 1..Len(toks) :
                  /\ toks[k] \in DOMAIN last.qdict
                  /\ last.qvals[k] = last.qdict[toks[k]]

\* A query compiled from the same predicate twice and a key with a question
\* mark after a dict: three values, the second and the third of one token
C26_Witness ==
    /\ last.op = "query"
    /\ last.compiled = ""
    /\ Len(last.qvals) = 3
    /\ \E toks \in {C26_Tokens(last.text)} :
          Len(toks) = 3 /\ toks[2] = toks[3] /\ toks[1] # toks[2]
    /\ \E k \in 1..Len(last.qstr) : last.qstr[k] = "?" /\ last.qstr[k - 1] = "k"

\* The equality pairs of a call as they are written: the items of each dict
\* argument, a bare key for {key: None}, then the keywords
C27_Written(args, kwargs) ==
    Concat([k \in 1..Len(args) |->
               IF args[k].t = "dict" THEN args[k].segs
               ELSE IF args[k].t = "query" THEN <<>>
               ELSE <<<<args[k], PyNone>>>>]) \o kwargs

\* The places where a key is written first
C27_First(pairs) ==
    {k \in 1..Len(pairs) : \A j \in 1..(k - 1) : pairs[j][1] # pairs[k][1]}

\* One condition for each key in the order of insertion
C27_Equalities(pairs) ==
    [j \in 1..Cardinality(C27_First(pairs)) |->
        <<"(">> \o ExtractText(JsonPathOfKey(
                       pairs[C26_Nth(C27_First(pairs), j)][1]).val)
        \o <<"=", "?", ")">>]

\* The predicate expressions among the arguments as the caller built them
C27_Predicates(args, h) ==
    [j \in 1..Cardinality({k \in 1..Len(args) : args[k].t = "query"}) |->
        Subbed(ReSplit(h[args[C26_Nth({k \in 1..Len(args) :
                                          args[k].t = "query"}, j)].i].query))]

RECURSIVE C27_Nest(_)
\* ( ( c1 AND c2 ) AND c3 ) ...
C27_Nest(conds) ==
    IF Len(conds) = 1 THEN conds[1]
    ELSE <<"(">> \o C27_Nest(SubSeq(conds, 1, Len(conds) - 1)) \o <<"AND">>
         \o conds[Len(conds)] \o <<")">>

\* C27: the compiled filter is the equality conditions in insertion order,
\* dict arguments then keywords, followed by the predicate expressions in
\* the order supplied, ANDed left-associatively, wherever the dicts and the
\* predicates stood among the positional arguments.
C27_EqualitiesThenPredicates ==
    (last.op = "query" /\ last.compiled = "" /\ last.text # None) =>
        last.qstr = C27_Nest(
            C27_Equalities(C27_Written(last.built, last.kwargs))
            \o C27_Predicates(last.built, last.before))

\* C28: comparing an unset expression with None under == or != gives the
\* IS NULL or IS NOT NULL form with no token and no binding; every other
\* operator and value draws exactly one new token, bound to the value, and
\* puts it after the operator.
C28_NullFormOrOneToken ==
    (last.op = "compare" /\ last.err = "" /\ last.before.query = None) =>
        \A path \in {ExtractText(TuplePath(last.before.key.segs))} :
            IF last.val = PyNone /\ last.sym \in {"=", "!="}
            THEN /\ ntok = last.tokens
                 /\ objs[last.self].qdict = EmptyDict
                 /\ objs[last.self].query =
                       <<"(">> \o path \o <<"IS">>
                       \o (IF last.sym = "!=" THEN <<"NOT">> ELSE <<>>)
                       \o <<"NULL", ")">>
            ELSE /\ ntok = last.tokens + 1
                 /\ \E tok \in DOMAIN objs[last.self].qdict :
                       /\ DOMAIN objs[last.self].qdict = {tok}
                       /\ objs[last.self].qdict[tok] = last.val
                       /\ objs[last.self].query =
                             <<"(">> \o path \o <<last.sym>> \o tok \o <<")">>
                       /\ \A p \in Objs \ {last.self} :
                             tok \notin DOMAIN objs[p].qdict

\* None compared under an operator other than == and != is bound to a token
C28_Witness ==
    /\ last.op = "compare"
    /\ last.err = ""
    /\ last.before.query = None
    /\ last.val = PyNone
    /\ last.sym \in {"<", "LIKE"}
    /\ ntok = 2
    /\ \E tok \in DOMAIN objs[last.self].qdict :
          objs[last.self].qdict[tok] = PyNone

\* C29: a query leaves the predicate expressions passed to it as they were,
\* text and bindings, and a later query with one of them alone selects the
\* rows that match it as the caller built it.
C29_ArgumentsUnchanged ==
    /\ last.op = "query" => objs = last.before
    /\ last.op = "later" =>
          \A alone \in {query(last.first.before, ntok, <<PyQuery(last.k)>>,
                              <<>>, table)} :
              last.err = alone.err /\ last.rows = alone.rows

-----------------------------------------------------------------------------
(* Properties of batches *)

\* A batch of two that raised IntegrityError
C30_Rejected(l) ==
    l.op = "insert" /\ l.err = "IntegrityError" /\ Len(l.call.ins) = 2

\* C30: an insert of several items under the default policy that raises
\* IntegrityError stores none of its items: outside a block the table is
\* what it was before the call, and when the call was made in the caller's
\* block and the block then ends without an exception, no row of the batch
\* is in the committed table.
C30_BatchAllOrNothing ==
    [][/\ (C30_Rejected(last') /\ last'.depth = 0) =>
              table' = last'.before.table
       /\ (C30_Rejected(last) /\ last'.op = "exit"
              /\ last'.ended \in {"commit", "rollback"}) =>
              \A k \in 1..Len(table') : table'[k].rowid < last.before.nextid]_vars

====
